---- MODULE Spec2Model ----
(***************************************************************************)
(* A model of two reconcilers of the aws-operator:                         *)
(*                                                                         *)
(*   - the bridgezone resource (service/controller/v22/resource/           *)
(*     bridgezone/resource.go), which keeps an NS delegation from the      *)
(*     "intermediate" zone k8s.<baseDomain> to the "final" zone            *)
(*     <clusterID>.k8s.<baseDomain>;                                       *)
(*   - the cpi resource (service/controller/v24/resource/cpi/delete.go),   *)
(*     which deletes the control plane initializer CloudFormation stack.   *)
(*                                                                         *)
(* Go strings that the code concatenates, trims and compares are modelled  *)
(* as sequences of tokens (labels and the separator "."), so that          *)
(* "k8s." + baseDomain and strings.TrimSuffix(s, ".") are computed, not    *)
(* assumed.  Go errors are modelled by their cause: the value a            *)
(* classification predicate (IsNotFound, ...) looks at through any number  *)
(* of microerror.Mask wrappers.                                            *)
(*                                                                         *)
(* The handlers are cut at their network calls, the only points where the  *)
(* two lookup goroutines of EnsureCreated interleave and where the cloud   *)
(* can change under the cpi resource.                                      *)
(*                                                                         *)
(* With them: the create path of the ebsvolume resource, the context the   *)
(* handlers are given, which may be cancelled, and the executor that runs  *)
(* the resources of a pass one after the other.  A request that fails for  *)
(* a transport fault and one that is aborted with its context look alike   *)
(* to a handler; Spec and SpecCPI hold the context open, SpecCtx lets it   *)
(* be cancelled at any moment.                                             *)
(***************************************************************************)
EXTENDS Integers, Sequences, FiniteSets, TLC

VARIABLES
    route53Enabled,     \* Resource.route53Enabled
    hostedZones,        \* Route53: account -> the hosted zones a name lookup lists
    recordSets,         \* Route53: hosted zone ID -> its record sets, in listing order
    pc,                 \* position of the running bridgezone handler
    op,                 \* the running bridgezone handler
    obj,                \* its obj argument
    intermediateZoneID, \* local of EnsureCreated / EnsureDeleted
    finalZoneID,        \* local of EnsureCreated
    finalZoneRecords,   \* local of EnsureCreated / EnsureDeleted
    finalZoneTTL,       \* local of EnsureDeleted
    gpc,                \* position of each goroutine of the errgroup
    gerr,               \* errgroup.Group: the first error a goroutine returned
    log,                \* the Route53 calls of the running handler, with their outputs
    events,             \* the "canceling ..." log events of the running handler
    result,             \* the error the handler returned
    startRecordSets,    \* recordSets when the running handler was entered
    history,            \* the handler calls that returned, oldest first
    stacks,             \* CloudFormation: stack name -> state of the stack
    cpc,                \* position of the running cpi handler
    cobj,               \* its obj argument
    clog,               \* the CloudFormation calls of the running handler
    cevents,            \* the "canceling ..." log events of the running handler
    cresult,            \* the error the handler returned
    ccalls,             \* cpi handler calls so far
    changes,            \* changes of the stacks made by others so far
    epc,                \* position of the ebsvolume create path
    currentState,       \* ebsvolume: the currentState argument
    desiredState,       \* ebsvolume: the desiredState argument
    createChange,       \* ebsvolume: the createChange argument of ApplyCreateChange
    eresult,            \* ebsvolume: the error last returned
    ecalls,             \* ebsvolume: the cloud calls issued
    ctxDone,            \* the ctx of the running handlers is cancelled or past its deadline
    xmode,              \* executor: the kind of the pass, create or delete
    xidx,               \* executor: the position in the order of the pass
    xpc,                \* executor: about to invoke, waiting for a resource, or done
    xtrace,             \* executor: the invocations and returns of the pass
    xresult,            \* executor: the result of the pass
    status,             \* controllercontext: the Status of the context of the pass
    npc,                \* bridgezone New: not yet called, or returned
    config,             \* bridgezone New: its config argument
    newResult,          \* bridgezone New: the Resource and the error it returned
    workers,            \* adapter: the number of worker nodes of the custom object
    ratioResult,        \* adapter: what workerCountRatio returned when called alone
    asg,                \* adapter: the auto scaling group fields Adapt has set
    listing,            \* getNameServersAndTTL alone: what the client returned
    queried,            \* getNameServersAndTTL alone: the name asked for
    answer,             \* getNameServersAndTTL alone: what it returned
    conditions,         \* v1alpha1: the conditions of the cluster status
    previous,           \* v1alpha1: the conditions before the last call
    lastWith            \* v1alpha1: the With...Condition calls made so far

dnsVars == <<route53Enabled, hostedZones, recordSets, pc, op, obj,
             intermediateZoneID, finalZoneID, finalZoneRecords, finalZoneTTL,
             gpc, gerr, log, events, result, startRecordSets, history>>

cpiVars == <<stacks, cpc, cobj, clog, cevents, cresult, ccalls, changes>>

ebsVars == <<epc, currentState, desiredState, createChange, eresult, ecalls>>

\* What neither the bridgezone nor the cpi resource touches.
execVars == <<xmode, xidx, xpc, xtrace, xresult>>

\* What no handler of the model touches.
newVars == <<npc, config, newResult>>

asgVars == <<workers, ratioResult, asg>>

readVars == <<listing, queried, answer>>

condVars == <<conditions, previous, lastWith>>

otherVars == <<ebsVars, ctxDone, execVars, newVars, asgVars, readVars, condVars>>

extVars == <<otherVars, status>>

vars == <<dnsVars, cpiVars, extVars>>

(***************************************************************************)
(* Bounds of the model.                                                    *)
(***************************************************************************)
MaxCalls == 2   \* handler calls in one behaviour
MaxZones == 2   \* hosted zones one account lists for a name
MaxChanges == 2 \* changes others make to the CloudFormation stacks
MaxWorkers == 40 \* worker nodes of a custom object
MaxListed == 2  \* record sets a client returns for one listing
MaxWith == 5    \* With...Condition calls on one cluster status

(***************************************************************************)
(* Strings.                                                                *)
(***************************************************************************)
Dot == <<".">>

HasSuffix(s, suffix) ==
    /\ Len(s) >= Len(suffix)
    /\ SubSeq(s, Len(s) - Len(suffix) + 1, Len(s)) = suffix

TrimSuffix(s, suffix) ==
    IF HasSuffix(s, suffix) THEN SubSeq(s, 1, Len(s) - Len(suffix)) ELSE s

(***************************************************************************)
(* Errors, by cause.                                                       *)
(***************************************************************************)
Nil == "nil"

IsNotFound(err) == err = "notFoundError"

IsExecutionError(err) == err = "executionError"

(***************************************************************************)
(* Cluster objects.                                                        *)
(***************************************************************************)
ExampleDomain == <<"example", ".", "io">>

Cluster(id) == [Kind |-> "AWSConfig", ClusterID |-> <<id>>, BaseDomain |-> ExampleDomain]

\* The handlers are called with the cluster c1 or with an object of another
\* type; c2 is a cluster whose zone and delegation c1's handlers may meet.
Objects == {Cluster("c1"), [Kind |-> "Pod", ClusterID |-> <<>>, BaseDomain |-> <<>>]}

ToCustomObject(o) ==
    IF o.Kind = "AWSConfig" THEN [customObject |-> o, err |-> Nil]
    ELSE [customObject |-> o, err |-> "wrongTypeError"]

BaseDomain(customObject) == customObject.BaseDomain

ClusterID(customObject) == customObject.ClusterID

IntermediateZone(customObject) == <<"k8s", ".">> \o BaseDomain(customObject)

FinalZone(customObject) ==
    ClusterID(customObject) \o <<".", "k8s", ".">> \o BaseDomain(customObject)

(***************************************************************************)
(* Route53, as the two clients see it.                                     *)
(*                                                                         *)
(* guest is the tenant account's client (controllerCtx.AWSClient.Route53), *)
(* defaultGuest the client built for the default role ARN.  A listing of   *)
(* hosted zones by name may hold the zone asked for, with or without the   *)
(* trailing dot, and zones of other names, in any order.                   *)
(***************************************************************************)
Clients == {"guest", "defaultGuest"}

HostedZone(name, id) == [Name |-> name, Id |-> id]

ZoneIDs == {"Z1", "Z2", "Z3"}

GuestZonePool ==
    {HostedZone(FinalZone(Cluster("c1")), "Z2"),
     HostedZone(FinalZone(Cluster("c1")) \o Dot, "Z2")}

DefaultGuestZonePool ==
    {HostedZone(IntermediateZone(Cluster("c1")), "Z1"),
     HostedZone(IntermediateZone(Cluster("c1")) \o Dot, "Z1"),
     HostedZone(FinalZone(Cluster("c2")), "Z3")}

ZoneLists(pool) ==
    {zs \in UNION {[1..n -> pool] : n \in 0..MaxZones} :
        \A i, j \in DOMAIN zs : i # j => zs[i].Id # zs[j].Id}

RecordSet(name, type, ttl, values) ==
    [Name |-> name, Type |-> type, TTL |-> ttl, ResourceRecords |-> values]

\* Route53 stores and returns record names fully qualified.
Fqdn(name) == IF HasSuffix(name, Dot) THEN name ELSE name \o Dot

NameRank(name) ==
    LET n == TrimSuffix(name, Dot)
    IN  IF n = FinalZone(Cluster("c1")) THEN 1
        ELSE IF n = FinalZone(Cluster("c2")) THEN 2
        ELSE 0

TypeRank(type) == IF type = "A" THEN 0 ELSE IF type = "NS" THEN 1 ELSE 2

\* The position of a record set in a zone's listing: by name, then by type.
RecordKey(name, type) == 3 * NameRank(name) + TypeRank(type)

NameServerLists == {<<"ns-1", "ns-2">>, <<"ns-2">>}

FinalZoneRecordSets ==
    {<<>>} \cup
    {<<RecordSet(Fqdn(FinalZone(Cluster("c1"))), "NS", ttl, v)>> :
        ttl \in {172800}, v \in NameServerLists}

Delegations ==
    {<<>>,
     <<RecordSet(Fqdn(FinalZone(Cluster("c1"))), "NS", 300, <<"ns-1", "ns-2">>)>>,
     <<RecordSet(Fqdn(FinalZone(Cluster("c1"))), "NS", 900, <<"ns-2">>)>>}

\* What else the intermediate zone may hold at or after the delegation.
Neighbours ==
    {<<>>,
     <<RecordSet(Fqdn(FinalZone(Cluster("c1"))), "TXT", 60, <<"txt">>)>>,
     <<RecordSet(Fqdn(FinalZone(Cluster("c2"))), "NS", 300, <<"ns-3">>)>>}

\* client.ListHostedZonesByName(in)
ListHostedZonesByName(client, fault) ==
    IF fault THEN [err |-> "awsError", HostedZones |-> <<>>]
    ELSE [err |-> Nil, HostedZones |-> hostedZones[client]]

\* client.ListResourceRecordSetsWithContext(ctx, in): the first MaxItems
\* record sets at or after (StartRecordName, StartRecordType).
ListResourceRecordSets(in, fault) ==
    IF fault \/ in.HostedZoneId \notin ZoneIDs
    THEN [err |-> "awsError", ResourceRecordSets |-> <<>>]
    ELSE LET from == SelectSeq(recordSets[in.HostedZoneId],
                         LAMBDA rs : RecordKey(rs.Name, rs.Type) >=
                                     RecordKey(in.StartRecordName, in.StartRecordType))
             n == IF Len(from) < in.MaxItems THEN Len(from) ELSE in.MaxItems
         IN  [err |-> Nil, ResourceRecordSets |-> SubSeq(from, 1, n)]

\* The record sets of a zone after one change of a change batch.
ApplyChange(zone, change) ==
    LET rs == [change.ResourceRecordSet EXCEPT !.Name = Fqdn(@)]
        k == RecordKey(rs.Name, rs.Type)
        before == SelectSeq(zone, LAMBDA x : RecordKey(x.Name, x.Type) < k)
        after == SelectSeq(zone, LAMBDA x : RecordKey(x.Name, x.Type) > k)
    IN  IF change.Action = "DELETE" THEN before \o after
        ELSE before \o <<rs>> \o after

\* An UPSERT is always accepted; a CREATE only of a record set that does not
\* exist; a DELETE only of a record set that exists with the very name,
\* type, TTL and values of the request.
ChangeAccepted(zone, change) ==
    LET rs == [change.ResourceRecordSet EXCEPT !.Name = Fqdn(@)]
    IN  IF change.Action = "UPSERT" THEN TRUE
        ELSE IF change.Action = "CREATE"
        THEN \A i \in DOMAIN zone :
                 RecordKey(zone[i].Name, zone[i].Type) # RecordKey(rs.Name, rs.Type)
        ELSE \E i \in DOMAIN zone : zone[i] = rs

\* client.ChangeResourceRecordSetsWithContext(ctx, in)
ChangeResourceRecordSets(in, fault) ==
    IF \/ fault
       \/ in.HostedZoneId \notin ZoneIDs
       \/ ~ChangeAccepted(recordSets[in.HostedZoneId], in.Change)
    THEN [err |-> "awsError", recordSets |-> recordSets]
    ELSE [err |-> Nil,
          recordSets |-> [recordSets EXCEPT ![in.HostedZoneId] =
                              ApplyChange(@, in.Change)]]

(***************************************************************************)
(* controllercontext: the status of the context a pass shares between its  *)
(* resources, a value for each field of ContextStatus.  FromContext hands   *)
(* out a pointer to the context, so that what a handler assigns is seen by  *)
(* the resources after it.                                                 *)
(***************************************************************************)
StatusFields ==
    {"ControlPlane.AWSAccountID", "ControlPlane.NATGateway.Addresses",
     "ControlPlane.PeerRole.ARN", "ControlPlane.VPC.CIDR",
     "TenantCluster.AWSAccountID", "TenantCluster.EncryptionKey",
     "TenantCluster.HostedZoneNameServers", "TenantCluster.KMS.KeyARN",
     "TenantCluster.TCCP.ASG", "TenantCluster.VPCPeeringConnectionID"}

\* The zero value, and a status the resources before have filled.
ZeroStatus == [f \in StatusFields |-> ""]

FilledStatus == [f \in StatusFields |-> "set"]

\* A faulty handler: it records the account of the client it was handed.
WithAccountID(st) == [st EXCEPT !["TenantCluster.AWSAccountID"] = "overwritten"]

\* The status after a handler took its clients from the context:
\* controllerCtx.AWSClient.Route53 and cc.Client.ControlPlane.AWS.CloudFormation
\* are read, nothing is assigned.
WithClientsRead(st) == st

(***************************************************************************)
(* Which requests carry a context.  A request that carries one is aborted  *)
(* when the context is done: it has no effect and fails with the           *)
(* cancellation error; a request that carries none runs to its end.        *)
(***************************************************************************)
Canceled == "canceledError"

IsCanceled(err) == err = Canceled

\* g := &errgroup.Group{}: the group has no context of its own, so the
\* failure of one goroutine cancels nothing.
GroupWithContext == FALSE

\* client.ListHostedZonesByName(in)
LookupWithContext == FALSE

\* client.ListResourceRecordSetsWithContext(ctx, in)
ReadWithContext == TRUE

\* client.ChangeResourceRecordSetsWithContext(ctx, in)
ChangeWithContext == TRUE

\* cc.Client.ControlPlane.AWS.CloudFormation.UpdateTerminationProtection(i)
DisableWithContext == FALSE

\* cc.Client.ControlPlane.AWS.CloudFormation.DeleteStack(i)
DeleteStackWithContext == FALSE

\* The context a goroutine of the group would hand on is done.
GroupDone(first) == ctxDone \/ (GroupWithContext /\ first # Nil)

Aborted(withContext, done) == withContext /\ done

(***************************************************************************)
(* bridgezone: the helpers.                                                *)
(***************************************************************************)
\* A faulty findHostedZoneID: it trusts the first hosted zone of the listing.
findHostedZoneIDFirst(out, name) ==
    IF out.err # Nil THEN [id |-> "", err |-> out.err]
    ELSE IF Len(out.HostedZones) > 0 THEN [id |-> out.HostedZones[1].Id, err |-> Nil]
    ELSE [id |-> "", err |-> "notFoundError"]

\* The body of findHostedZoneID after the listing returned out.
findHostedZoneID(out, name) ==
    IF out.err # Nil THEN [id |-> "", err |-> out.err]
    ELSE LET hits == {i \in DOMAIN out.HostedZones : out.HostedZones[i].Name = name}
         IN  IF hits # {}
             THEN [id |-> out.HostedZones[CHOOSE i \in hits : \A j \in hits : i <= j].Id,
                   err |-> Nil]
             ELSE [id |-> "", err |-> "notFoundError"]

\* The input getNameServersAndTTL builds.
NameServersInput(zoneID, name) ==
    [HostedZoneId |-> zoneID, MaxItems |-> 1,
     StartRecordName |-> name, StartRecordType |-> "NS"]

\* A faulty getNameServersAndTTL: it takes the first record set of a listing
\* of any length.
getNameServersAndTTLOfFirst(out, name) ==
    IF out.err # Nil THEN [nameServers |-> <<>>, ttl |-> 0, err |-> out.err]
    ELSE IF Len(out.ResourceRecordSets) = 0
    THEN [nameServers |-> <<>>, ttl |-> 0, err |-> "notFoundError"]
    ELSE LET rs == out.ResourceRecordSets[1]
         IN  IF TrimSuffix(rs.Name, Dot) # name
             THEN [nameServers |-> <<>>, ttl |-> 0, err |-> "notFoundError"]
             ELSE [nameServers |-> rs.ResourceRecords, ttl |-> rs.TTL, err |-> Nil]

\* The body of getNameServersAndTTL after the listing returned out.
getNameServersAndTTL(out, name) ==
    IF out.err # Nil THEN [nameServers |-> <<>>, ttl |-> 0, err |-> out.err]
    ELSE IF Len(out.ResourceRecordSets) = 0
    THEN [nameServers |-> <<>>, ttl |-> 0, err |-> "notFoundError"]
    ELSE IF Len(out.ResourceRecordSets) # 1
    THEN [nameServers |-> <<>>, ttl |-> 0, err |-> "executionError"]
    ELSE LET rs == out.ResourceRecordSets[1]
         IN  IF TrimSuffix(rs.Name, Dot) # name
             THEN [nameServers |-> <<>>, ttl |-> 0, err |-> "notFoundError"]
             ELSE [nameServers |-> rs.ResourceRecords, ttl |-> rs.TTL, err |-> Nil]

\* The change batch EnsureCreated sends.
DelegationTTL == 900

\* A faulty change batch: it is sent to the zone the name servers came from.
UpsertInputIntoFinalZone(zoneID, name, records) ==
    [HostedZoneId |-> finalZoneID,
     Change |-> [Action |-> "UPSERT",
                 ResourceRecordSet |-> RecordSet(name, "NS", DelegationTTL, records)]]

\* A faulty change batch: it creates the record instead of upserting it.
UpsertInputCreate(zoneID, name, records) ==
    [HostedZoneId |-> zoneID,
     Change |-> [Action |-> "CREATE",
                 ResourceRecordSet |-> RecordSet(name, "NS", DelegationTTL, records)]]

UpsertInput(zoneID, name, records) ==
    [HostedZoneId |-> zoneID,
     Change |-> [Action |-> "UPSERT",
                 ResourceRecordSet |-> RecordSet(name, "NS", DelegationTTL, records)]]

\* A faulty change batch: it deletes with the TTL EnsureCreated writes.
DeleteInputCreateTTL(zoneID, name, ttl, records) ==
    [HostedZoneId |-> zoneID,
     Change |-> [Action |-> "DELETE",
                 ResourceRecordSet |-> RecordSet(name, "NS", DelegationTTL, records)]]

\* A faulty change batch: it deletes the record of the intermediate zone's
\* own name.
DeleteInputOfZoneName(zoneID, name, ttl, records) ==
    [HostedZoneId |-> zoneID,
     Change |-> [Action |-> "DELETE",
                 ResourceRecordSet |->
                     RecordSet(IntermediateZone(obj), "NS", ttl, records)]]

\* The change batch EnsureDeleted sends.
DeleteInput(zoneID, name, ttl, records) ==
    [HostedZoneId |-> zoneID,
     Change |-> [Action |-> "DELETE",
                 ResourceRecordSet |-> RecordSet(name, "NS", ttl, records)]]

\* A logged call: the request, whether the transport failed it, what the
\* client answered and what the helper that made the call returned.
Call(api, client, in, fault, out, ret) ==
    [Api |-> api, Client |-> client, In |-> in, Fault |-> fault, Out |-> out, Ret |-> ret]

(***************************************************************************)
(* bridgezone: the state after New, over every cloud the handlers may      *)
(* meet.  Nothing but the handlers changes the cloud.                      *)
(***************************************************************************)
NoObject == [Kind |-> "none", ClusterID |-> <<>>, BaseDomain |-> <<>>]

Goroutines == {"intermediate", "final"}

Idle ==
    /\ pc = "idle"
    /\ op = "none"
    /\ obj = NoObject
    /\ intermediateZoneID = ""
    /\ finalZoneID = ""
    /\ finalZoneRecords = <<>>
    /\ finalZoneTTL = 0
    /\ gpc = [g \in Goroutines |-> "none"]
    /\ gerr = Nil
    /\ log = <<>>
    /\ events = <<>>
    /\ result = Nil

DNSInit ==
    /\ route53Enabled \in BOOLEAN
    /\ hostedZones \in [guest : ZoneLists(GuestZonePool),
                        defaultGuest : ZoneLists(DefaultGuestZonePool)]
    /\ \E f \in FinalZoneRecordSets, d \in Delegations, n \in Neighbours :
           recordSets =
               [z \in ZoneIDs |->
                   IF z = "Z1" THEN d \o n
                   ELSE IF z = "Z2" THEN f
                   ELSE <<>>]
    /\ startRecordSets = recordSets
    /\ history = <<>>
    /\ Idle

cloudVars == <<route53Enabled, hostedZones>>

\* The handler returns err, having logged the events evs.
Returns(err, evs) ==
    /\ pc' = "done"
    /\ result' = err
    /\ events' = events \o evs

\* A faulty handler: it cancels without a word.
CancelsSilently == <<>>

CancelEvents == <<"canceling resource reconciliation for custom object">>

\* route53Clients, whose credential lookup and client construction may fail.
route53Clients(fault) ==
    IF fault THEN [guest |-> "", defaultGuest |-> "", err |-> "clientError"]
    ELSE [guest |-> "guest", defaultGuest |-> "defaultGuest", err |-> Nil]

(***************************************************************************)
(* bridgezone: EnsureCreated.                                              *)
(***************************************************************************)
\* Up to the start of the two goroutines.
EnsureCreatedEnter(o) ==
    /\ pc = "idle"
    /\ Len(history) < MaxCalls
    /\ op' = "EnsureCreated"
    /\ obj' = o
    /\ startRecordSets' = recordSets
    /\ \E fault \in BOOLEAN :
           IF ToCustomObject(o).err # Nil
           THEN Returns(ToCustomObject(o).err, <<>>) /\ UNCHANGED gpc
           ELSE IF ~route53Enabled
           THEN Returns(Nil, CancelEvents) /\ UNCHANGED gpc
           ELSE IF route53Clients(fault).err # Nil
           THEN Returns(route53Clients(fault).err, <<>>) /\ UNCHANGED gpc
           ELSE /\ pc' = "lookups"
                /\ gpc' = [g \in Goroutines |-> "ready"]
                /\ UNCHANGED <<result, events>>
    /\ status' = IF ToCustomObject(o).err = Nil /\ route53Enabled
                  THEN WithClientsRead(status)
                  ELSE status
    /\ UNCHANGED <<otherVars, cpiVars, cloudVars, recordSets, intermediateZoneID,
                   finalZoneID, finalZoneRecords, finalZoneTTL, gerr, log, history>>

LookupClient(g) == IF g = "intermediate" THEN "defaultGuest" ELSE "guest"

LookupName(g, customObject) ==
    IF g = "intermediate" THEN IntermediateZone(customObject)
    ELSE FinalZone(customObject)

\* A goroutine sends its ListHostedZonesByName request.
LookupCall(g) ==
    /\ pc = "lookups"
    /\ gpc[g] = "ready"
    /\ gpc' = [gpc EXCEPT ![g] = "inflight"]
    /\ UNCHANGED <<extVars, cpiVars, cloudVars, recordSets, pc, op, obj, intermediateZoneID,
                   finalZoneID, finalZoneRecords, finalZoneTTL, gerr, log,
                   events, result, startRecordSets, history>>

\* errgroup.Group keeps the first error returned to it.
GroupError(first, err) == IF first = Nil THEN err ELSE first

\* The request returns and the goroutine runs to its end.
LookupReturn(g) ==
    /\ pc = "lookups"
    /\ gpc[g] = "inflight"
    /\ \E fault \in BOOLEAN :
           LET out == IF Aborted(LookupWithContext, GroupDone(gerr))
                      THEN [err |-> Canceled, HostedZones |-> <<>>]
                      ELSE ListHostedZonesByName(LookupClient(g), fault)
               r == findHostedZoneID(out, LookupName(g, obj))
           IN  /\ log' = Append(log, Call("ListHostedZonesByName", LookupClient(g),
                                          [DNSName |-> LookupName(g, obj)], fault, out, r))
               /\ IF r.err # Nil
                  THEN /\ gerr' = GroupError(gerr, r.err)
                       /\ UNCHANGED <<intermediateZoneID, finalZoneID>>
                  ELSE /\ intermediateZoneID' =
                              IF g = "intermediate" THEN r.id ELSE intermediateZoneID
                       /\ finalZoneID' = IF g = "final" THEN r.id ELSE finalZoneID
                       /\ UNCHANGED gerr
    /\ gpc' = [gpc EXCEPT ![g] = "done"]
    /\ UNCHANGED <<extVars, cpiVars, cloudVars, recordSets, pc, op, obj, finalZoneRecords,
                   finalZoneTTL, events, result, startRecordSets, history>>

\* A faulty classification: a zone that is not found fails the call.
AfterWaitNoCancel(err) == IF err # Nil THEN "fail" ELSE "continue"

\* What EnsureCreated does with the error of g.Wait().
AfterWait(err) ==
    IF IsNotFound(err) THEN "cancel"
    ELSE IF err # Nil THEN "fail"
    ELSE "continue"

\* A faulty wait: it returns as soon as one goroutine has.
WaitedForOne == \E g \in Goroutines : gpc[g] = "done"

\* g.Wait() blocks until every goroutine of the group has returned.
Waited == \A g \in Goroutines : gpc[g] = "done"

\* g.Wait() returns once both goroutines have.
Wait ==
    /\ pc = "lookups"
    /\ Waited
    /\ IF AfterWait(gerr) = "cancel" THEN Returns(Nil, <<"canceling resource">>)
       ELSE IF AfterWait(gerr) = "fail" THEN Returns(gerr, <<>>)
       ELSE pc' = "nameServers" /\ UNCHANGED <<result, events>>
    /\ UNCHANGED <<extVars, cpiVars, cloudVars, recordSets, op, obj, intermediateZoneID,
                   finalZoneID, finalZoneRecords, finalZoneTTL, gpc, gerr, log,
                   startRecordSets, history>>

\* The name servers of the final zone are read from the final zone.
GetFinalZoneNameServers ==
    /\ pc = "nameServers"
    /\ \E fault \in BOOLEAN :
           LET in == NameServersInput(finalZoneID, FinalZone(obj))
               out == IF Aborted(ReadWithContext, ctxDone)
                      THEN [err |-> Canceled, ResourceRecordSets |-> <<>>]
                      ELSE ListResourceRecordSets(in, fault)
               r == getNameServersAndTTL(out, FinalZone(obj))
           IN  /\ log' = Append(log, Call("ListResourceRecordSets", "guest", in,
                                          fault, out, r))
               /\ IF r.err # Nil
                  THEN Returns(r.err, <<>>) /\ UNCHANGED finalZoneRecords
                  ELSE /\ finalZoneRecords' = r.nameServers
                       /\ pc' = "upsert"
                       /\ UNCHANGED <<result, events>>
    /\ UNCHANGED <<extVars, cpiVars, cloudVars, recordSets, op, obj, intermediateZoneID,
                   finalZoneID, finalZoneTTL, gpc, gerr, startRecordSets, history>>

\* The delegation is upserted in the intermediate zone.
EnsureDelegation ==
    /\ pc = "upsert"
    /\ \E fault \in BOOLEAN :
           LET in == UpsertInput(intermediateZoneID, FinalZone(obj), finalZoneRecords)
               out == IF Aborted(ChangeWithContext, ctxDone)
                      THEN [err |-> Canceled, recordSets |-> recordSets]
                      ELSE ChangeResourceRecordSets(in, fault)
           IN  /\ log' = Append(log, Call("ChangeResourceRecordSets", "defaultGuest",
                                          in, fault, [err |-> out.err], out.err))
               /\ recordSets' = out.recordSets
               /\ Returns(out.err, <<>>)
    /\ UNCHANGED <<extVars, cpiVars, cloudVars, op, obj, intermediateZoneID, finalZoneID,
                   finalZoneRecords, finalZoneTTL, gpc, gerr, startRecordSets,
                   history>>

(***************************************************************************)
(* bridgezone: EnsureDeleted.                                              *)
(***************************************************************************)
EnsureDeletedEnter(o) ==
    /\ pc = "idle"
    /\ Len(history) < MaxCalls
    /\ op' = "EnsureDeleted"
    /\ obj' = o
    /\ startRecordSets' = recordSets
    /\ \E fault \in BOOLEAN :
           IF ToCustomObject(o).err # Nil
           THEN Returns(ToCustomObject(o).err, <<>>)
           ELSE IF ~route53Enabled
           THEN Returns(Nil, CancelEvents)
           ELSE IF route53Clients(fault).err # Nil
           THEN Returns(route53Clients(fault).err, <<>>)
           ELSE pc' = "intermediateZone" /\ UNCHANGED <<result, events>>
    /\ status' = IF ToCustomObject(o).err = Nil /\ route53Enabled
                  THEN WithClientsRead(status)
                  ELSE status
    /\ UNCHANGED <<otherVars, cpiVars, cloudVars, recordSets, intermediateZoneID,
                   finalZoneID, finalZoneRecords, finalZoneTTL, gpc, gerr, log, history>>

\* A faulty classification: a zone that is not found fails the call.
AfterIntermediateZoneFails(err) == IF err # Nil THEN "fail" ELSE "continue"

\* What EnsureDeleted does with the error of the lookup.
AfterIntermediateZone(err) ==
    IF IsNotFound(err) THEN "cancel"
    ELSE IF err # Nil THEN "fail"
    ELSE "continue"

\* The intermediate zone is looked up.
GetIntermediateZone ==
    /\ pc = "intermediateZone"
    /\ \E fault \in BOOLEAN :
           LET out == IF Aborted(LookupWithContext, ctxDone)
                      THEN [err |-> Canceled, HostedZones |-> <<>>]
                      ELSE ListHostedZonesByName("defaultGuest", fault)
               r == findHostedZoneID(out, IntermediateZone(obj))
           IN  /\ log' = Append(log, Call("ListHostedZonesByName", "defaultGuest",
                                          [DNSName |-> IntermediateZone(obj)], fault,
                                          out, r))
               /\ intermediateZoneID' = r.id
               /\ IF AfterIntermediateZone(r.err) = "cancel"
                  THEN Returns(Nil, CancelEvents)
                  ELSE IF AfterIntermediateZone(r.err) = "fail"
                  THEN Returns(r.err, <<>>)
                  ELSE pc' = "delegation" /\ UNCHANGED <<result, events>>
    /\ UNCHANGED <<extVars, cpiVars, cloudVars, recordSets, op, obj, finalZoneID, finalZoneRecords,
                   finalZoneTTL, gpc, gerr, startRecordSets, history>>

\* The delegation and its TTL are read back from the intermediate zone.
GetDelegation ==
    /\ pc = "delegation"
    /\ \E fault \in BOOLEAN :
           LET in == NameServersInput(intermediateZoneID, FinalZone(obj))
               out == IF Aborted(ReadWithContext, ctxDone)
                      THEN [err |-> Canceled, ResourceRecordSets |-> <<>>]
                      ELSE ListResourceRecordSets(in, fault)
               r == getNameServersAndTTL(out, FinalZone(obj))
           IN  /\ log' = Append(log, Call("ListResourceRecordSets", "defaultGuest",
                                          in, fault, out, r))
               /\ IF IsNotFound(r.err)
                  THEN Returns(Nil, CancelEvents)
                       /\ UNCHANGED <<finalZoneTTL, finalZoneRecords>>
                  ELSE IF r.err # Nil
                  THEN Returns(r.err, <<>>)
                       /\ UNCHANGED <<finalZoneTTL, finalZoneRecords>>
                  ELSE /\ finalZoneTTL' = r.ttl
                       /\ finalZoneRecords' = r.nameServers
                       /\ pc' = "delete"
                       /\ UNCHANGED <<result, events>>
    /\ UNCHANGED <<extVars, cpiVars, cloudVars, recordSets, op, obj, intermediateZoneID,
                   finalZoneID, gpc, gerr, startRecordSets, history>>

\* The delegation is deleted from the intermediate zone.
DeleteDelegation ==
    /\ pc = "delete"
    /\ \E fault \in BOOLEAN :
           LET in == DeleteInput(intermediateZoneID, FinalZone(obj), finalZoneTTL,
                                 finalZoneRecords)
               out == IF Aborted(ChangeWithContext, ctxDone)
                      THEN [err |-> Canceled, recordSets |-> recordSets]
                      ELSE ChangeResourceRecordSets(in, fault)
           IN  /\ log' = Append(log, Call("ChangeResourceRecordSets", "defaultGuest",
                                          in, fault, [err |-> out.err], out.err))
               /\ recordSets' = out.recordSets
               /\ Returns(out.err, <<>>)
    /\ UNCHANGED <<extVars, cpiVars, cloudVars, op, obj, intermediateZoneID, finalZoneID,
                   finalZoneRecords, finalZoneTTL, gpc, gerr, startRecordSets,
                   history>>

(***************************************************************************)
(* The caller takes the result; the handler's locals are gone.             *)
(***************************************************************************)
\* The record mutations among the calls of a log.
Mutations(calls) == SelectSeq(calls, LAMBDA c : c.Api = "ChangeResourceRecordSets")

Returned == [op |-> op, obj |-> obj, result |-> result, mutations |-> Mutations(log)]

Return ==
    /\ pc = "done"
    /\ history' = Append(history, Returned)
    /\ pc' = "idle"
    /\ op' = "none"
    /\ obj' = NoObject
    /\ intermediateZoneID' = ""
    /\ finalZoneID' = ""
    /\ finalZoneRecords' = <<>>
    /\ finalZoneTTL' = 0
    /\ gpc' = [g \in Goroutines |-> "none"]
    /\ gerr' = Nil
    /\ log' = <<>>
    /\ events' = <<>>
    /\ result' = Nil
    /\ UNCHANGED <<extVars, cpiVars, cloudVars, recordSets, startRecordSets>>

(***************************************************************************)
(* CloudFormation, as the control plane client of the cpi resource sees    *)
(* it.  A stack is absent, present with or without termination             *)
(* protection, or being deleted.  The service answers a request according  *)
(* to the state of the stack; where it may answer either way both answers  *)
(* are modelled, and any request may fail for another reason.              *)
(***************************************************************************)
IsDeleteInProgress(err) == err = "deleteInProgressError"

IsNotExists(err) == err = "notExistsError"

CPIObjects == {Cluster("c1"), Cluster("c2"),
               [Kind |-> "Pod", ClusterID |-> <<>>, BaseDomain |-> <<>>]}

MainHostPreStackName(cr) == <<"cluster-">> \o ClusterID(cr) \o <<"-host-setup">>

StackNames == {MainHostPreStackName(Cluster("c1")), MainHostPreStackName(Cluster("c2"))}

StackStates == {"absent", "protected", "unprotected", "deleting"}

\* The errors UpdateTerminationProtection may answer for a stack in state st.
UpdateTerminationProtectionErrors(st) ==
    {"awsError"} \cup
    (IF st = "absent" THEN {"notExistsError"}
     ELSE IF st = "deleting" THEN {"deleteInProgressError"}
     ELSE {Nil})

\* The state of the stack after UpdateTerminationProtection(false) answered err.
UpdateTerminationProtection(st, err) ==
    IF err = Nil /\ st = "protected" THEN "unprotected" ELSE st

\* The errors DeleteStack may answer for a stack in state st.
DeleteStackErrors(st) ==
    {"awsError"} \cup
    (IF st = "absent" THEN {Nil, "notExistsError"}
     ELSE IF st = "deleting" THEN {Nil, "deleteInProgressError"}
     ELSE IF st = "protected" THEN {}
     ELSE {Nil})

\* The state of the stack after DeleteStack answered err.
DeleteStack(st, err) ==
    IF err = Nil /\ st = "unprotected" THEN "deleting" ELSE st

\* controllercontext.FromContext
FromContext(fault) == IF fault THEN "contextError" ELSE Nil

CPIIdle ==
    /\ cpc = "idle"
    /\ cobj = NoObject
    /\ clog = <<>>
    /\ cevents = <<>>
    /\ cresult = Nil

CPIInit ==
    /\ stacks \in [StackNames -> StackStates]
    /\ ccalls = 0
    /\ changes = 0
    /\ CPIIdle

\* The handler returns err, having logged the events evs.
CPIReturns(err, evs) ==
    /\ cpc' = "done"
    /\ cresult' = err
    /\ cevents' = cevents \o evs

(***************************************************************************)
(* cpi: EnsureDeleted.                                                     *)
(***************************************************************************)
CPIEnsureDeletedEnter(o) ==
    /\ cpc = "idle"
    /\ ccalls < MaxCalls
    /\ ccalls' = ccalls + 1
    /\ cobj' = o
    /\ \E fault \in BOOLEAN :
           IF ToCustomObject(o).err # Nil
           THEN CPIReturns(ToCustomObject(o).err, <<>>)
           ELSE IF FromContext(fault) # Nil
           THEN CPIReturns(FromContext(fault), <<>>)
           ELSE cpc' = "disable" /\ UNCHANGED <<cresult, cevents>>
    /\ status' = IF ToCustomObject(o).err = Nil THEN WithClientsRead(status) ELSE status
    /\ UNCHANGED <<otherVars, dnsVars, stacks, clog, changes>>

\* A faulty classification: a stack that does not exist fails the call.
AfterDisableNoNotExists(err) ==
    IF IsDeleteInProgress(err) THEN "cancel"
    ELSE IF err # Nil THEN "fail"
    ELSE "delete"

\* A faulty classification: the deletion is requested whatever the error.
AfterDisableIgnoresError(err) ==
    IF IsDeleteInProgress(err) THEN "cancel"
    ELSE IF IsNotExists(err) THEN "cancel"
    ELSE "delete"

\* A faulty classification: every error cancels.
AfterDisableCancelsAll(err) == IF err # Nil THEN "cancel" ELSE "delete"

\* What EnsureDeleted does with the error of UpdateTerminationProtection.
AfterDisable(err) ==
    IF IsDeleteInProgress(err) THEN "cancel"
    ELSE IF IsNotExists(err) THEN "cancel"
    ELSE IF err # Nil THEN "fail"
    ELSE "delete"

\* The stack whose termination protection EnsureDeleted disables.
DisableInput(cr) ==
    [EnableTerminationProtection |-> FALSE, StackName |-> MainHostPreStackName(cr)]

\* The stack EnsureDeleted asks to be deleted.
DeleteStackInput(cr) == [StackName |-> MainHostPreStackName(cr)]

CPICall(api, in, err) == [Api |-> api, In |-> in, err |-> err]

DisableTerminationProtection ==
    /\ cpc = "disable"
    /\ LET in == DisableInput(cobj)
       IN  \E err \in IF Aborted(DisableWithContext, ctxDone) THEN {Canceled}
                      ELSE UpdateTerminationProtectionErrors(stacks[in.StackName]) :
               /\ clog' = Append(clog, CPICall("UpdateTerminationProtection", in, err))
               /\ stacks' = [stacks EXCEPT ![in.StackName] =
                                 UpdateTerminationProtection(@, err)]
               /\ IF AfterDisable(err) = "cancel"
                  THEN CPIReturns(Nil, <<"canceling resource">>)
                  ELSE IF AfterDisable(err) = "fail"
                  THEN CPIReturns(err, <<>>)
                  ELSE cpc' = "delete" /\ UNCHANGED <<cresult, cevents>>
    /\ UNCHANGED <<extVars, dnsVars, cobj, ccalls, changes>>

\* What EnsureDeleted returns for the error of DeleteStack.
AfterDelete(err) == err

RequestDeletion ==
    /\ cpc = "delete"
    /\ LET in == DeleteStackInput(cobj)
       IN  \E err \in IF Aborted(DeleteStackWithContext, ctxDone) THEN {Canceled}
                      ELSE DeleteStackErrors(stacks[in.StackName]) :
               /\ clog' = Append(clog, CPICall("DeleteStack", in, err))
               /\ stacks' = [stacks EXCEPT ![in.StackName] = DeleteStack(@, err)]
               /\ CPIReturns(AfterDelete(err), <<>>)
    /\ UNCHANGED <<extVars, dnsVars, cobj, ccalls, changes>>

CPIReturn ==
    /\ cpc = "done"
    /\ cpc' = "idle"
    /\ cobj' = NoObject
    /\ clog' = <<>>
    /\ cevents' = <<>>
    /\ cresult' = Nil
    /\ UNCHANGED <<extVars, dnsVars, stacks, ccalls, changes>>

\* Someone else starts the deletion of a stack, or its deletion completes.
StackChanges(name) ==
    /\ changes < MaxChanges
    /\ stacks[name] # "absent"
    /\ changes' = changes + 1
    /\ stacks' = [stacks EXCEPT ![name] = IF @ = "deleting" THEN "absent" ELSE "deleting"]
    /\ UNCHANGED <<extVars, dnsVars, cpc, cobj, clog, cevents, cresult, ccalls>>

(***************************************************************************)
(* The executor of a resource set, after its contract: a pass invokes the  *)
(* resources one after the other, in list order to create and in reverse   *)
(* order to delete; it ends with success at the first error classified as  *)
(* cancel-pass and with the error at the first other error.  The bridgezone *)
(* and the cpi resource take their place in the list between two other     *)
(* resources, of which only the errors they return are modelled.           *)
(***************************************************************************)
Resources == <<"A", "bridgezone", "cpi", "C">>

Reverse(seq) == [i \in DOMAIN seq |-> seq[Len(seq) + 1 - i]]

\* A faulty order: a delete pass runs in list order.
OrderForward(mode) == Resources

\* The order in which a pass invokes the resources.
Order(mode) == IF mode = "create" THEN Resources ELSE Reverse(Resources)

Operation(mode) == IF mode = "create" THEN "ensureCreated" ELSE "ensureDeleted"

\* The errors the contract classifies as cancel-pass.
IsCancelPass(err) == IsNotFound(err) \/ IsNotExists(err) \/ IsDeleteInProgress(err)

\* What the executor does with the error a resource returned.
AfterResource(err) ==
    IF IsCancelPass(err) THEN "cancel"
    ELSE IF err # Nil THEN "fail"
    ELSE "next"

\* The operations of a resource that are handlers of the model.
Modelled(resource, mode) ==
    \/ resource = "bridgezone"
    \/ resource = "cpi" /\ mode = "delete"

\* The errors a resource of which no more is known may return.
ResourceErrors == {Nil, "notFoundError", "executionError"}

InvokedEvent(resource, mode) ==
    [resource |-> resource, op |-> Operation(mode), event |-> "invoked",
     err |-> Nil, canceling |-> FALSE]

\* canceling: the resource logged that it cancels.
ReturnedEvent(resource, mode, err, canceling) ==
    [resource |-> resource, op |-> Operation(mode), event |-> "returned",
     err |-> err, canceling |-> canceling]

ExecOff ==
    /\ xmode = "none"
    /\ xidx = 0
    /\ xpc = "off"
    /\ xtrace = <<>>
    /\ xresult = Nil

ExecInit ==
    /\ xmode \in {"create", "delete"}
    /\ xidx = 1
    /\ xpc = "next"
    /\ xtrace = <<>>
    /\ xresult = Nil

Current == Order(xmode)[xidx]

\* The executor invokes the next resource of the pass.
Invoke ==
    /\ xpc = "next"
    /\ xtrace' = Append(xtrace, InvokedEvent(Current, xmode))
    /\ xpc' = "running"
    /\ UNCHANGED <<dnsVars, cpiVars, ebsVars, ctxDone, status, newVars, asgVars, readVars,
                   condVars, xmode, xidx,
                   xresult>>

\* The resource returned err to the executor.
Collect(err, canceling) ==
    /\ xtrace' = Append(xtrace, ReturnedEvent(Current, xmode, err, canceling))
    /\ IF AfterResource(err) = "cancel"
       THEN xpc' = "done" /\ xresult' = Nil /\ UNCHANGED xidx
       ELSE IF AfterResource(err) = "fail"
       THEN xpc' = "done" /\ xresult' = err /\ UNCHANGED xidx
       ELSE IF xidx = Len(Order(xmode))
       THEN xpc' = "done" /\ xresult' = Nil /\ UNCHANGED xidx
       ELSE xpc' = "next" /\ xidx' = xidx + 1 /\ UNCHANGED xresult
    /\ UNCHANGED <<dnsVars, cpiVars, ebsVars, ctxDone, status, newVars, asgVars, readVars,
                   condVars, xmode>>

\* A resource of which only the result is modelled returns.
ResourceReturns(err) ==
    /\ xpc = "running"
    /\ ~Modelled(Current, xmode)
    /\ Collect(err, FALSE)

Running(resource) == xpc = "running" /\ Current = resource

\* The bridgezone resource is entered, runs as its handlers do, and returns.
BridgezoneEnsureCreated ==
    /\ Running("bridgezone")
    /\ xmode = "create"
    /\ EnsureCreatedEnter(Cluster("c1"))

BridgezoneEnsureDeleted ==
    /\ Running("bridgezone")
    /\ xmode = "delete"
    /\ EnsureDeletedEnter(Cluster("c1"))

BridgezoneCollected ==
    /\ Running("bridgezone")
    /\ pc = "done"
    /\ Collect(result, events # <<>>)

BridgezoneReturned ==
    /\ ~Running("bridgezone")
    /\ Return

\* The cpi resource is entered, runs as its handler does, and returns.
CPIEnsureDeleted ==
    /\ Running("cpi")
    /\ xmode = "delete"
    /\ CPIEnsureDeletedEnter(Cluster("c1"))

CPICollected ==
    /\ Running("cpi")
    /\ xmode = "delete"
    /\ cpc = "done"
    /\ Collect(cresult, cevents # <<>>)

CPIReturned ==
    /\ ~Running("cpi")
    /\ CPIReturn

(***************************************************************************)
(* adapter: the rolling update of the auto scaling group.  A float32 that  *)
(* is not negative is the integer n that stands for n / 2^FloatScale; it   *)
(* has 24 significant bits, and a result that needs more is rounded to the *)
(* nearest such number, to the even one of two that are as near.           *)
(***************************************************************************)
FloatScale == 25

MantissaBits == 24

RECURSIVE Pow2(_)
Pow2(n) == IF n = 0 THEN 1 ELSE 2 * Pow2(n - 1)

RECURSIVE BitLen(_)
BitLen(n) == IF n = 0 THEN 0 ELSE 1 + BitLen(n \div 2)

RoundFloat32(n) ==
    IF BitLen(n) <= MantissaBits THEN n
    ELSE LET unit == Pow2(BitLen(n) - MantissaBits)
             q    == n \div unit
             r    == n % unit
         IN  IF 2 * r > unit \/ (2 * r = unit /\ q % 2 = 1)
             THEN (q + 1) * unit
             ELSE q * unit

\* float32(workers)
Float32(i) == RoundFloat32(i * Pow2(FloatScale))

\* a * b of two float32, a a whole number
MulFloat32(a, b) == RoundFloat32((a \div Pow2(FloatScale)) * b)

AddFloat32(a, b) == RoundFloat32(a + b)

\* int(f)
Truncate(f) == f \div Pow2(FloatScale)

\* The float32 nearest to 0.3, 0.7 and 0.5.
asgMaxBatchSizeRatio == 10066330

asgMinInstancesRatio == 23488102

Half == 16777216

DecimalDigits == <<"0", "1", "2", "3", "4", "5", "6", "7", "8", "9">>

\* strconv.Itoa of an integer that is not negative: its digits, the most
\* significant first.
RECURSIVE Itoa(_)
Itoa(i) ==
    IF i < 10 THEN <<DecimalDigits[i + 1]>>
    ELSE Append(Itoa(i \div 10), DecimalDigits[(i % 10) + 1])

\* A faulty workerCountRatio: it lets a ratio of zero through.
workerCountRatioUnguarded(w, ratio) ==
    Itoa(Truncate(AddFloat32(MulFloat32(Float32(w), ratio), Half)))

workerCountRatio(w, ratio) ==
    LET value   == MulFloat32(Float32(w), ratio)
        rounded == Truncate(AddFloat32(value, Half))
    IN  IF rounded = 0 THEN Itoa(1) ELSE Itoa(rounded)

NoASG == [adapted |-> FALSE, err |-> Nil, MaxBatchSize |-> <<>>,
          MinInstancesInService |-> <<>>]

\* The adapter of the other specifications is not used.
ASGOff ==
    /\ workers = 0
    /\ ratioResult = <<>>
    /\ asg = NoASG

ASGInit ==
    /\ workers \in 0..MaxWorkers
    /\ ratioResult = <<>>
    /\ asg = NoASG

\* workerCountRatio is called alone with the ratio of the batch size.
WorkerCountRatioMaxBatchSize ==
    /\ ratioResult = <<>>
    /\ ratioResult' = workerCountRatio(workers, asgMaxBatchSizeRatio)
    /\ UNCHANGED <<dnsVars, cpiVars, ebsVars, ctxDone, execVars, status, newVars,
                   readVars, condVars, workers, asg>>

\* Adapt fails for a custom object without worker nodes, and otherwise sets
\* the two fields of the rolling update.
Adapt ==
    /\ ~asg.adapted
    /\ asg' = IF workers = 0
              THEN [NoASG EXCEPT !.adapted = TRUE, !.err = "noWorkersError"]
              ELSE [adapted |-> TRUE, err |-> Nil,
                    MaxBatchSize |-> workerCountRatio(workers, asgMaxBatchSizeRatio),
                    MinInstancesInService |->
                        workerCountRatio(workers, asgMinInstancesRatio)]
    /\ UNCHANGED <<dnsVars, cpiVars, ebsVars, ctxDone, execVars, status, newVars,
                   readVars, condVars, workers, ratioResult>>

(***************************************************************************)
(* bridgezone: getNameServersAndTTL alone, on what a client may return for *)
(* its listing: an error, or up to MaxListed record sets.                  *)
(***************************************************************************)
\* The name asked for, as stored (one trailing dot), as is, with two
\* trailing dots, and the name of another cluster.
ListedNames ==
    {Fqdn(FinalZone(Cluster("c1"))),
     FinalZone(Cluster("c1")),
     Fqdn(FinalZone(Cluster("c1"))) \o Dot,
     Fqdn(FinalZone(Cluster("c2")))}

ListedRecordSets ==
    {RecordSet(n, t, ttl, v) :
        n \in ListedNames, t \in {"NS", "TXT"}, ttl \in {300},
        v \in {<<"ns-1", "ns-2">>, <<"ns-2", "ns-1">>}}

Listings ==
    {[err |-> "awsError", ResourceRecordSets |-> <<>>]} \cup
    {[err |-> Nil, ResourceRecordSets |-> sets] :
        sets \in UNION {[1..n -> ListedRecordSets] : n \in 0..MaxListed}}

NoAnswer == [done |-> FALSE, nameServers |-> <<>>, ttl |-> 0, err |-> Nil]

\* getNameServersAndTTL is not called alone in the other specifications.
ReadOff ==
    /\ listing = [err |-> Nil, ResourceRecordSets |-> <<>>]
    /\ queried = <<>>
    /\ answer = NoAnswer

ReadInit ==
    /\ listing \in Listings
    /\ queried = FinalZone(Cluster("c1"))
    /\ answer = NoAnswer

\* getNameServersAndTTL returns, the client having returned the listing.
GetNameServersAndTTL ==
    /\ ~answer.done
    /\ LET r == getNameServersAndTTL(listing, queried)
       IN  answer' = [done |-> TRUE, nameServers |-> r.nameServers, ttl |-> r.ttl,
                      err |-> r.err]
    /\ UNCHANGED <<dnsVars, cpiVars, ebsVars, ctxDone, execVars, status, newVars,
                   asgVars, condVars, listing, queried>>

(***************************************************************************)
(* v1alpha1: the conditions of the cluster status.                         *)
(***************************************************************************)
StatusClusterStatusTrue == "True"

StatusClusterTypeCreated == "Created"

StatusClusterTypeCreating == "Creating"

StatusClusterTypeUpdated == "Updated"

StatusClusterTypeUpdating == "Updating"

StatusClusterTypes ==
    {StatusClusterTypeCreated, StatusClusterTypeCreating,
     StatusClusterTypeUpdated, StatusClusterTypeUpdating}

StatusClusterCondition(s, t) == [Status |-> s, Type |-> t]

hasCondition(conds, s, t) ==
    \E i \in DOMAIN conds : conds[i].Status = s /\ conds[i].Type = t

\* A faulty withCondition: it keeps the conditions of the type it searches.
withConditionKeepsSearched(conds, search, replace, s) ==
    <<StatusClusterCondition(s, replace)>> \o conds

withCondition(conds, search, replace, s) ==
    <<StatusClusterCondition(s, replace)>> \o
        SelectSeq(conds, LAMBDA c : c.Type # search)

HasCreatedCondition(conds) ==
    hasCondition(conds, StatusClusterStatusTrue, StatusClusterTypeCreated)

HasCreatingCondition(conds) ==
    hasCondition(conds, StatusClusterStatusTrue, StatusClusterTypeCreating)

HasUpdatedCondition(conds) ==
    hasCondition(conds, StatusClusterStatusTrue, StatusClusterTypeUpdated)

HasUpdatingCondition(conds) ==
    hasCondition(conds, StatusClusterStatusTrue, StatusClusterTypeUpdating)

WithCreatedCondition(conds) ==
    withCondition(conds, StatusClusterTypeCreating, StatusClusterTypeCreated,
                  StatusClusterStatusTrue)

WithCreatingCondition(conds) ==
    withCondition(conds, StatusClusterTypeCreated, StatusClusterTypeCreating,
                  StatusClusterStatusTrue)

WithUpdatedCondition(conds) ==
    withCondition(conds, StatusClusterTypeUpdating, StatusClusterTypeUpdated,
                  StatusClusterStatusTrue)

WithUpdatingCondition(conds) ==
    withCondition(conds, StatusClusterTypeUpdated, StatusClusterTypeUpdating,
                  StatusClusterStatusTrue)

\* No cluster status in the other specifications.
ConditionsOff ==
    /\ conditions = <<>>
    /\ previous = <<>>
    /\ lastWith = <<>>

\* The status sets its conditions to what a With...Condition returns; previous
\* is the list the call was made on, lastWith the calls made so far.
SetConditions(name, conds) ==
    /\ Len(lastWith) < MaxWith
    /\ previous' = conditions
    /\ conditions' = conds
    /\ lastWith' = Append(lastWith, name)
    /\ UNCHANGED <<dnsVars, cpiVars, ebsVars, ctxDone, execVars, status, newVars,
                   asgVars, readVars>>

SetCreatedCondition == SetConditions("Created", WithCreatedCondition(conditions))

SetCreatingCondition == SetConditions("Creating", WithCreatingCondition(conditions))

SetUpdatedCondition == SetConditions("Updated", WithUpdatedCondition(conditions))

SetUpdatingCondition == SetConditions("Updating", WithUpdatingCondition(conditions))

(***************************************************************************)
(* bridgezone: New.  A config holds the host AWS config, a struct that is  *)
(* empty when each of its fields has its zero value, three references      *)
(* that are nil or not, and the route53 switch.                            *)
(***************************************************************************)
IsInvalidConfig(err) == err = "invalidConfigError"

\* clientaws.Config{}
EmptyAWSConfig == [AccessKeyID |-> "", Region |-> ""]

AWSConfigs == [AccessKeyID : {"", "key"}, Region : {"", "eu-central-1"}]

\* A reference is modelled by whether it is set (not nil).
Configs ==
    [HostAWSConfig : AWSConfigs, HostRoute53 : BOOLEAN, K8sClient : BOOLEAN,
     Logger : BOOLEAN, Route53Enabled : BOOLEAN]

\* Go's nil *Resource.
NilResource ==
    [nil |-> TRUE, hostAWSConfig |-> EmptyAWSConfig, k8sClient |-> FALSE,
     logger |-> FALSE, route53Enabled |-> FALSE]

\* A faulty New: it does not look at HostRoute53.
NewWithoutHostRoute53(c) ==
    IF c.HostAWSConfig = EmptyAWSConfig \/ ~c.K8sClient \/ ~c.Logger
    THEN [resource |-> NilResource, err |-> "invalidConfigError"]
    ELSE [resource |-> [nil |-> FALSE, hostAWSConfig |-> c.HostAWSConfig,
                        k8sClient |-> c.K8sClient, logger |-> c.Logger,
                        route53Enabled |-> c.Route53Enabled],
          err |-> Nil]

New(c) ==
    IF c.HostAWSConfig = EmptyAWSConfig
    THEN [resource |-> NilResource, err |-> "invalidConfigError"]
    ELSE IF ~c.HostRoute53
    THEN [resource |-> NilResource, err |-> "invalidConfigError"]
    ELSE IF ~c.K8sClient
    THEN [resource |-> NilResource, err |-> "invalidConfigError"]
    ELSE IF ~c.Logger
    THEN [resource |-> NilResource, err |-> "invalidConfigError"]
    ELSE [resource |-> [nil |-> FALSE, hostAWSConfig |-> c.HostAWSConfig,
                        k8sClient |-> c.K8sClient, logger |-> c.Logger,
                        route53Enabled |-> c.Route53Enabled],
          err |-> Nil]

\* The Resource of the other specifications is there from the start.
NewOff ==
    /\ npc = "off"
    /\ config = [HostAWSConfig |-> EmptyAWSConfig, HostRoute53 |-> FALSE,
                 K8sClient |-> FALSE, Logger |-> FALSE, Route53Enabled |-> FALSE]
    /\ newResult = [resource |-> NilResource, err |-> Nil]

NewInit ==
    /\ npc = "new"
    /\ config \in Configs
    /\ newResult = [resource |-> NilResource, err |-> Nil]

\* New is called with the config; the Resource it returns is the one whose
\* handlers are called from then on.
Construct ==
    /\ npc = "new"
    /\ npc' = "returned"
    /\ newResult' = New(config)
    /\ route53Enabled' = New(config).resource.route53Enabled
    /\ UNCHANGED <<hostedZones, recordSets, pc, op, obj, intermediateZoneID, finalZoneID,
                   finalZoneRecords, finalZoneTTL, gpc, gerr, log, events, result,
                   startRecordSets, history, cpiVars, ebsVars, ctxDone, execVars,
                   status, config, asgVars, readVars, condVars>>

\* There is a Resource to call.
Constructed == npc = "returned" /\ ~newResult.resource.nil

ConstructedEnsureCreated(o) == Constructed /\ EnsureCreatedEnter(o)

ConstructedEnsureDeleted(o) == Constructed /\ EnsureDeletedEnter(o)

(***************************************************************************)
(* ebsvolume: the create path of the CRUD resource.  The states are the    *)
(* sets of volumes the cluster holds and should hold; a change is the      *)
(* no-op value or the volumes to act on.                                   *)
(***************************************************************************)
Volumes == {"vol-1", "vol-2", "vol-3"}

VolumeStates == SUBSET Volumes

\* Go's nil interface value, and a change that holds volumes.
NilChange == [nil |-> TRUE, volumes |-> {}]

VolumeChange(volumes) == [nil |-> FALSE, volumes |-> volumes]

CreateChanges == {NilChange} \cup {VolumeChange(v) : v \in VolumeStates}

\* A newCreateChange that diffs: the volumes desired and not there.
newCreateChangeDiff(current, desired) ==
    [change |-> IF desired \ current = {} THEN NilChange
                ELSE VolumeChange(desired \ current),
     err |-> Nil]

\* newCreateChange returns nil, nil.
newCreateChange(current, desired) == [change |-> NilChange, err |-> Nil]

\* An ApplyCreateChange that creates the volumes of the change.
ApplyCreateChangeCreates(change) ==
    [err |-> Nil,
     calls |-> IF change = NilChange THEN <<>>
               ELSE <<[Api |-> "CreateVolume", In |-> change.volumes]>>]

\* ApplyCreateChange returns nil and calls nothing.
ApplyCreateChange(change) == [err |-> Nil, calls |-> <<>>]

EBSOff ==
    /\ epc = "off"
    /\ currentState = {}
    /\ desiredState = {}
    /\ createChange = NilChange
    /\ eresult = Nil
    /\ ecalls = <<>>

EBSInit ==
    /\ epc = "diff"
    /\ currentState \in VolumeStates
    /\ desiredState \in VolumeStates
    /\ createChange = NilChange
    /\ eresult = Nil
    /\ ecalls = <<>>

\* The create change is computed from the two states.
ComputeCreateChange ==
    /\ epc = "diff"
    /\ createChange' = newCreateChange(currentState, desiredState).change
    /\ eresult' = newCreateChange(currentState, desiredState).err
    /\ epc' = "apply"
    /\ UNCHANGED <<dnsVars, cpiVars, currentState, desiredState, ecalls, ctxDone,
                   execVars, status, newVars, asgVars, readVars, condVars>>

\* ApplyCreateChange is called with a change.
ApplyCreate(change) ==
    /\ epc = "apply"
    /\ createChange' = change
    /\ eresult' = ApplyCreateChange(change).err
    /\ ecalls' = ecalls \o ApplyCreateChange(change).calls
    /\ epc' = "applied"
    /\ UNCHANGED <<dnsVars, cpiVars, currentState, desiredState, ctxDone, execVars,
                   status, newVars, asgVars, readVars, condVars>>

(***************************************************************************)
(* The specifications: Spec of the bridgezone resource, SpecCPI of the     *)
(* cpi resource.                                                           *)
(***************************************************************************)
Init ==
    /\ DNSInit
    /\ stacks = [n \in StackNames |-> "absent"]
    /\ ccalls = 0
    /\ changes = 0
    /\ CPIIdle
    /\ EBSOff
    /\ ctxDone = FALSE
    /\ ReadOff
    /\ ConditionsOff
    /\ ASGOff
    /\ NewOff
    /\ status = ZeroStatus
    /\ ExecOff

Next ==
    \/ \E o \in Objects : EnsureCreatedEnter(o)
    \/ \E g \in Goroutines : LookupCall(g)
    \/ \E g \in Goroutines : LookupReturn(g)
    \/ Wait
    \/ GetFinalZoneNameServers
    \/ EnsureDelegation
    \/ \E o \in Objects : EnsureDeletedEnter(o)
    \/ GetIntermediateZone
    \/ GetDelegation
    \/ DeleteDelegation
    \/ Return

Spec == Init /\ [][Next]_vars

InitCPI ==
    /\ CPIInit
    /\ route53Enabled = FALSE
    /\ hostedZones = [guest |-> <<>>, defaultGuest |-> <<>>]
    /\ recordSets = [z \in ZoneIDs |-> <<>>]
    /\ startRecordSets = recordSets
    /\ history = <<>>
    /\ Idle
    /\ EBSOff
    /\ ctxDone = FALSE
    /\ ReadOff
    /\ ConditionsOff
    /\ ASGOff
    /\ NewOff
    /\ status = ZeroStatus
    /\ ExecOff

NextCPI ==
    \/ \E o \in CPIObjects : CPIEnsureDeletedEnter(o)
    \/ DisableTerminationProtection
    \/ RequestDeletion
    \/ CPIReturn
    \/ \E n \in StackNames : StackChanges(n)

SpecCPI == InitCPI /\ [][NextCPI]_vars

\* The bridgezone resource disabled or enabled over an empty cloud, the cpi
\* resource idle.
Quiet ==
    /\ hostedZones = [guest |-> <<>>, defaultGuest |-> <<>>]
    /\ recordSets = [z \in ZoneIDs |-> <<>>]
    /\ startRecordSets = recordSets
    /\ history = <<>>
    /\ Idle
    /\ stacks = [n \in StackNames |-> "absent"]
    /\ ccalls = 0
    /\ changes = 0
    /\ CPIIdle

InitEBS ==
    /\ EBSInit
    /\ route53Enabled = FALSE
    /\ Quiet
    /\ ctxDone = FALSE
    /\ ReadOff
    /\ ConditionsOff
    /\ ASGOff
    /\ NewOff
    /\ status = ZeroStatus
    /\ ExecOff

NextEBS ==
    \/ ComputeCreateChange
    \/ \E change \in CreateChanges : ApplyCreate(change)

SpecEBS == InitEBS /\ [][NextEBS]_vars

\* The final zone with its name servers, delegated by the intermediate zone.
DelegatedRecordSets ==
    [z \in ZoneIDs |->
        IF z = "Z1"
        THEN <<RecordSet(Fqdn(FinalZone(Cluster("c1"))), "NS", 300, <<"ns-1", "ns-2">>)>>
        ELSE IF z = "Z2"
        THEN <<RecordSet(Fqdn(FinalZone(Cluster("c1"))), "NS", 172800, <<"ns-2">>)>>
        ELSE <<>>]

\* A cloud in which an enabled bridgezone resource finds both zones, the
\* name servers of the final zone and a delegation.
ZonesThere ==
    /\ hostedZones =
           [guest |-> <<HostedZone(FinalZone(Cluster("c1")), "Z2")>>,
            defaultGuest |-> <<HostedZone(IntermediateZone(Cluster("c1")), "Z1")>>]
    /\ recordSets = DelegatedRecordSets
    /\ startRecordSets = recordSets

\* The resources that do nothing: the bridgezone resource with route53
\* disabled, and the create path of the ebsvolume resource.
InitNoOp ==
    /\ route53Enabled = FALSE
    /\ ZonesThere
    /\ history = <<>>
    /\ Idle
    /\ stacks = [n \in StackNames |-> "absent"]
    /\ ccalls = 0
    /\ changes = 0
    /\ CPIIdle
    /\ EBSInit
    /\ ctxDone = FALSE
    /\ ReadOff
    /\ ConditionsOff
    /\ ASGOff
    /\ NewOff
    /\ status = ZeroStatus
    /\ ExecOff

NextNoOp ==
    \/ \E o \in Objects : EnsureCreatedEnter(o)
    \/ \E o \in Objects : EnsureDeletedEnter(o)
    \/ Return
    \/ ComputeCreateChange
    \/ \E change \in CreateChanges : ApplyCreate(change)

SpecNoOp == InitNoOp /\ [][NextNoOp]_vars

\* The context the handlers were given is cancelled, or its deadline passes.
Cancel ==
    /\ ~ctxDone
    /\ ctxDone' = TRUE
    /\ UNCHANGED <<dnsVars, cpiVars, ebsVars, execVars, status, newVars, asgVars, readVars,
                   condVars>>

\* Both resources at work under a context that may be cancelled at any
\* moment, over a cloud in which every request of theirs is reached.
InitCtx ==
    /\ route53Enabled = TRUE
    /\ ZonesThere
    /\ history = <<>>
    /\ Idle
    /\ stacks = [n \in StackNames |-> "protected"]
    /\ ccalls = 0
    /\ changes = 0
    /\ CPIIdle
    /\ EBSOff
    /\ ctxDone = FALSE
    /\ ReadOff
    /\ ConditionsOff
    /\ ASGOff
    /\ NewOff
    /\ status = ZeroStatus
    /\ ExecOff

NextCtx ==
    \/ \E o \in Objects : EnsureCreatedEnter(o)
    \/ \E g \in Goroutines : LookupCall(g)
    \/ \E g \in Goroutines : LookupReturn(g)
    \/ Wait
    \/ GetFinalZoneNameServers
    \/ EnsureDelegation
    \/ \E o \in Objects : EnsureDeletedEnter(o)
    \/ GetIntermediateZone
    \/ GetDelegation
    \/ DeleteDelegation
    \/ Return
    \/ \E o \in CPIObjects : CPIEnsureDeletedEnter(o)
    \/ DisableTerminationProtection
    \/ RequestDeletion
    \/ CPIReturn
    \/ Cancel

SpecCtx == InitCtx /\ [][NextCtx]_vars

\* A pass of the executor over the cluster c1, whose final zone and whose
\* stack may or may not be there.
InitExec ==
    /\ ExecInit
    /\ route53Enabled = TRUE
    /\ hostedZones \in
           [guest : {<<>>, <<HostedZone(FinalZone(Cluster("c1")), "Z2")>>},
            defaultGuest : {<<HostedZone(IntermediateZone(Cluster("c1")), "Z1")>>}]
    /\ recordSets = DelegatedRecordSets
    /\ startRecordSets = recordSets
    /\ history = <<>>
    /\ Idle
    /\ stacks \in {st \in [StackNames -> StackStates] :
                      st[MainHostPreStackName(Cluster("c2"))] = "absent"}
    /\ ccalls = 0
    /\ changes = 0
    /\ CPIIdle
    /\ EBSOff
    /\ ctxDone = FALSE
    /\ ReadOff
    /\ ConditionsOff
    /\ ASGOff
    /\ NewOff
    /\ status = ZeroStatus

NextExec ==
    \/ Invoke
    \/ \E err \in ResourceErrors : ResourceReturns(err)
    \/ BridgezoneEnsureCreated
    \/ \E g \in Goroutines : LookupCall(g)
    \/ \E g \in Goroutines : LookupReturn(g)
    \/ Wait
    \/ GetFinalZoneNameServers
    \/ EnsureDelegation
    \/ BridgezoneEnsureDeleted
    \/ GetIntermediateZone
    \/ GetDelegation
    \/ DeleteDelegation
    \/ BridgezoneCollected
    \/ BridgezoneReturned
    \/ CPIEnsureDeleted
    \/ DisableTerminationProtection
    \/ RequestDeletion
    \/ CPICollected
    \/ CPIReturned

SpecExec == InitExec /\ [][NextExec]_vars

\* The handlers that take their clients from the context of the pass, over
\* clouds in which they succeed, cancel and fail.
InitStatus ==
    /\ status \in {ZeroStatus, FilledStatus}
    /\ route53Enabled = TRUE
    /\ hostedZones \in
           [guest : {<<>>, <<HostedZone(FinalZone(Cluster("c1")), "Z2")>>},
            defaultGuest : {<<HostedZone(IntermediateZone(Cluster("c1")), "Z1")>>}]
    /\ recordSets = DelegatedRecordSets
    /\ startRecordSets = recordSets
    /\ history = <<>>
    /\ Idle
    /\ stacks \in {st \in [StackNames -> {"absent", "protected", "deleting"}] :
                      st[MainHostPreStackName(Cluster("c2"))] = "absent"}
    /\ ccalls = 0
    /\ changes = 0
    /\ CPIIdle
    /\ EBSOff
    /\ ctxDone = FALSE
    /\ ReadOff
    /\ ConditionsOff
    /\ ASGOff
    /\ NewOff
    /\ ExecOff

NextStatus ==
    \/ \E o \in Objects : EnsureCreatedEnter(o)
    \/ \E g \in Goroutines : LookupCall(g)
    \/ \E g \in Goroutines : LookupReturn(g)
    \/ Wait
    \/ GetFinalZoneNameServers
    \/ EnsureDelegation
    \/ \E o \in Objects : EnsureDeletedEnter(o)
    \/ GetIntermediateZone
    \/ GetDelegation
    \/ DeleteDelegation
    \/ Return
    \/ \E o \in Objects : CPIEnsureDeletedEnter(o)
    \/ DisableTerminationProtection
    \/ RequestDeletion
    \/ CPIReturn

SpecStatus == InitStatus /\ [][NextStatus]_vars

\* New, and the handlers of the Resource it returns.
InitNew ==
    /\ NewInit
    /\ route53Enabled = FALSE
    /\ hostedZones \in
           [guest : {<<>>, <<HostedZone(FinalZone(Cluster("c1")), "Z2")>>},
            defaultGuest : {<<HostedZone(IntermediateZone(Cluster("c1")), "Z1")>>}]
    /\ recordSets = DelegatedRecordSets
    /\ startRecordSets = recordSets
    /\ history = <<>>
    /\ Idle
    /\ stacks = [n \in StackNames |-> "absent"]
    /\ ccalls = 0
    /\ changes = 0
    /\ CPIIdle
    /\ EBSOff
    /\ ctxDone = FALSE
    /\ ReadOff
    /\ ConditionsOff
    /\ ASGOff
    /\ ExecOff
    /\ status = ZeroStatus

NextNew ==
    \/ Construct
    \/ \E o \in Objects : ConstructedEnsureCreated(o)
    \/ \E g \in Goroutines : LookupCall(g)
    \/ \E g \in Goroutines : LookupReturn(g)
    \/ Wait
    \/ GetFinalZoneNameServers
    \/ EnsureDelegation
    \/ \E o \in Objects : ConstructedEnsureDeleted(o)
    \/ GetIntermediateZone
    \/ GetDelegation
    \/ DeleteDelegation
    \/ Return

SpecNew == InitNew /\ [][NextNew]_vars

\* The handlers of the bridgezone resource, with route53 enabled or not, and
\* of the cpi resource, over a cloud where each of their cancel decisions is
\* possible.
InitEvents ==
    /\ route53Enabled \in BOOLEAN
    /\ hostedZones \in
           [guest : {<<>>, <<HostedZone(FinalZone(Cluster("c1")), "Z2")>>},
            defaultGuest : {<<>>, <<HostedZone(IntermediateZone(Cluster("c1")), "Z1")>>}]
    /\ recordSets = DelegatedRecordSets
    /\ startRecordSets = recordSets
    /\ history = <<>>
    /\ Idle
    /\ stacks \in {st \in [StackNames -> {"absent", "protected", "deleting"}] :
                      st[MainHostPreStackName(Cluster("c2"))] = "absent"}
    /\ ccalls = 0
    /\ changes = 0
    /\ CPIIdle
    /\ EBSOff
    /\ ctxDone = FALSE
    /\ ReadOff
    /\ ConditionsOff
    /\ ASGOff
    /\ NewOff
    /\ ExecOff
    /\ status = ZeroStatus

NextEvents ==
    \/ \E o \in Objects : EnsureCreatedEnter(o)
    \/ \E g \in Goroutines : LookupCall(g)
    \/ \E g \in Goroutines : LookupReturn(g)
    \/ Wait
    \/ GetFinalZoneNameServers
    \/ EnsureDelegation
    \/ \E o \in Objects : EnsureDeletedEnter(o)
    \/ GetIntermediateZone
    \/ GetDelegation
    \/ DeleteDelegation
    \/ Return
    \/ \E o \in Objects : CPIEnsureDeletedEnter(o)
    \/ DisableTerminationProtection
    \/ RequestDeletion
    \/ CPIReturn

SpecEvents == InitEvents /\ [][NextEvents]_vars

\* The adapter of the auto scaling group, for each number of worker nodes.
InitASG ==
    /\ ASGInit
    /\ route53Enabled = FALSE
    /\ Quiet
    /\ EBSOff
    /\ ctxDone = FALSE
    /\ ReadOff
    /\ ConditionsOff
    /\ NewOff
    /\ status = ZeroStatus
    /\ ExecOff

NextASG ==
    \/ WorkerCountRatioMaxBatchSize
    \/ Adapt

SpecASG == InitASG /\ [][NextASG]_vars

\* getNameServersAndTTL, for each listing a client may return.
InitRead ==
    /\ ReadInit
    /\ ConditionsOff
    /\ route53Enabled = FALSE
    /\ Quiet
    /\ EBSOff
    /\ ctxDone = FALSE
    /\ NewOff
    /\ ASGOff
    /\ status = ZeroStatus
    /\ ExecOff

NextRead == GetNameServersAndTTL

SpecRead == InitRead /\ [][NextRead]_vars

\* The conditions of a cluster status, from none on.
InitConditions ==
    /\ ConditionsOff
    /\ ReadOff
    /\ route53Enabled = FALSE
    /\ Quiet
    /\ EBSOff
    /\ ctxDone = FALSE
    /\ NewOff
    /\ ASGOff
    /\ status = ZeroStatus
    /\ ExecOff

NextConditions ==
    \/ SetCreatedCondition
    \/ SetCreatingCondition
    \/ SetUpdatedCondition
    \/ SetUpdatingCondition

SpecConditions == InitConditions /\ [][NextConditions]_vars

(***************************************************************************)
(* Properties of the bridgezone resource, checked under Spec.              *)
(***************************************************************************)
IsLookup(c) == c.Api = "ListHostedZonesByName"

IsRead(c) == c.Api = "ListResourceRecordSets"

IsChange(c) == c.Api = "ChangeResourceRecordSets"

\* The hosted zones of a listing whose name is the name asked for.
ExactMatches(c) ==
    {i \in DOMAIN c.Out.HostedZones : c.Out.HostedZones[i].Name = c.In.DNSName}

\* The same, a trailing dot of the listed name aside.
NormalizedMatches(c) ==
    {i \in DOMAIN c.Out.HostedZones :
        TrimSuffix(c.Out.HostedZones[i].Name, Dot) = c.In.DNSName}

\* The listing returned the one record set asked for.
ReadOne(c) ==
    /\ IsRead(c)
    /\ c.Out.err = Nil
    /\ Len(c.Out.ResourceRecordSets) = 1
    /\ TrimSuffix(c.Out.ResourceRecordSets[1].Name, Dot) = c.In.StartRecordName

Created == pc = "done" /\ op = "EnsureCreated"

Deleted == pc = "done" /\ op = "EnsureDeleted"

\* C1: when route53 is enabled, both zone lookups succeeded and the NS record
\* set of the final zone was read, EnsureCreated has issued exactly one
\* record mutation: an UPSERT, through defaultGuest, in the hosted zone whose
\* ID the intermediate lookup returned, of the NS record named
\* <clusterID>.k8s.<baseDomain> with TTL 900 and the values read from the
\* final zone, in their order.
C1_UpsertsWhatItRead ==
    (/\ Created
     /\ route53Enabled
     /\ \E i, j, k \in DOMAIN log :
            /\ IsLookup(log[i]) /\ log[i].Client = "defaultGuest" /\ log[i].Ret.err = Nil
            /\ IsLookup(log[j]) /\ log[j].Client = "guest" /\ log[j].Ret.err = Nil
            /\ ReadOne(log[k]))
    => \E i, j, k \in DOMAIN log :
            /\ IsLookup(log[i]) /\ log[i].Client = "defaultGuest"
            /\ IsLookup(log[j]) /\ log[j].Client = "guest"
            /\ ReadOne(log[k])
            /\ log[k].Client = "guest"
            /\ log[k].In.HostedZoneId = log[j].Ret.id
            /\ Len(Mutations(log)) = 1
            /\ Mutations(log)[1].Client = "defaultGuest"
            /\ Mutations(log)[1].In =
                   [HostedZoneId |-> log[i].Ret.id,
                    Change |->
                        [Action |-> "UPSERT",
                         ResourceRecordSet |->
                             [Name |-> FinalZone(obj), Type |-> "NS", TTL |-> 900,
                              ResourceRecords |->
                                  log[k].Out.ResourceRecordSets[1].ResourceRecords]]]

\* EnsureCreated upserted two name servers read from a record set whose own
\* TTL is not 900.
C1_Witness ==
    /\ Created
    /\ result = Nil
    /\ Len(Mutations(log)) = 1
    /\ Mutations(log)[1].In.Change.ResourceRecordSet.ResourceRecords = <<"ns-1", "ns-2">>
    /\ \E k \in DOMAIN log : ReadOne(log[k]) /\ log[k].Out.ResourceRecordSets[1].TTL # 900

\* EnsureCreated returned after a zone lookup returned not-found.
C2_Case ==
    /\ Created
    /\ \E i \in DOMAIN log : IsLookup(log[i]) /\ IsNotFound(log[i].Ret.err)

\* The failed lookups of the log, in the order in which they returned.
FailedLookups == SelectSeq(log, LAMBDA c : IsLookup(c) /\ c.Ret.err # Nil)

DelegationsOf(zone, o) ==
    {i \in DOMAIN zone :
        zone[i].Type = "NS" /\ TrimSuffix(zone[i].Name, Dot) = FinalZone(o)}

\* C3: a DELETE that EnsureDeleted issues names the NS record
\* <clusterID>.k8s.<baseDomain> in the intermediate zone and carries the TTL
\* and the values of the record set the same call read back from the
\* intermediate zone, which are those of the delegation record the zone
\* holds; it carries neither the constant 900 nor anything read from the
\* final zone.
C3_DeletesWhatItReadBack ==
    \A m \in DOMAIN log :
        (op = "EnsureDeleted" /\ IsChange(log[m])) =>
            \E i, k \in 1..(m - 1) :
                /\ IsLookup(log[i]) /\ log[i].Client = "defaultGuest"
                /\ log[i].In.DNSName = IntermediateZone(obj)
                /\ log[i].Ret.err = Nil
                /\ ReadOne(log[k])
                /\ log[k].Client = "defaultGuest"
                /\ log[k].In.HostedZoneId = log[i].Ret.id
                /\ log[k].In.StartRecordName = FinalZone(obj)
                /\ log[m].Client = "defaultGuest"
                /\ log[m].In =
                       [HostedZoneId |-> log[i].Ret.id,
                        Change |->
                            [Action |-> "DELETE",
                             ResourceRecordSet |->
                                 [Name |-> FinalZone(obj), Type |-> "NS",
                                  TTL |-> log[k].Out.ResourceRecordSets[1].TTL,
                                  ResourceRecords |->
                                      log[k].Out.ResourceRecordSets[1].ResourceRecords]]]
                /\ \A d \in DelegationsOf(startRecordSets[log[i].Ret.id], obj) :
                       /\ log[m].In.Change.ResourceRecordSet.TTL =
                              startRecordSets[log[i].Ret.id][d].TTL
                       /\ log[m].In.Change.ResourceRecordSet.ResourceRecords =
                              startRecordSets[log[i].Ret.id][d].ResourceRecords

\* EnsureDeleted deleted a delegation of TTL 300 while the final zone holds
\* an NS record set of another TTL.
C3_Witness ==
    /\ Deleted
    /\ result = Nil
    /\ Len(Mutations(log)) = 1
    /\ Mutations(log)[1].In.Change.ResourceRecordSet.TTL = 300
    /\ DelegationsOf(startRecordSets["Z1"], obj) # {}
    /\ recordSets["Z1"] # startRecordSets["Z1"]
    /\ recordSets["Z2"] # <<>>

\* C4: the ID findHostedZoneID returns is that of a listed hosted zone whose
\* name is exactly the name asked for, never that of a first element of
\* another name, and when no listed name is the name asked for it returns a
\* NotFound error.
C4_ExactNameOnly ==
    \A n \in DOMAIN log :
        (IsLookup(log[n]) /\ log[n].Out.err = Nil) =>
            /\ log[n].Ret.err = Nil =>
                   \E i \in ExactMatches(log[n]) :
                       log[n].Ret.id = log[n].Out.HostedZones[i].Id
            /\ ExactMatches(log[n]) = {} => IsNotFound(log[n].Ret.err)

\* A listing whose first element is another zone, and the ID of its second
\* element was returned.
C4_Witness ==
    \E n \in DOMAIN log :
        /\ IsLookup(log[n])
        /\ Len(log[n].Out.HostedZones) = 2
        /\ log[n].Out.HostedZones[1].Name # log[n].In.DNSName
        /\ log[n].Ret.err = Nil
        /\ log[n].Ret.id = log[n].Out.HostedZones[2].Id
        /\ log[n].Ret.id # log[n].Out.HostedZones[1].Id

\* C5, as claimed: findHostedZoneID compares the names a trailing dot aside,
\* so that the ID of a listed zone "k8s.example.io." is returned for the name
\* "k8s.example.io".
C5_TrailingDotAccepted ==
    \A n \in DOMAIN log :
        (IsLookup(log[n]) /\ log[n].Out.err = Nil) =>
            \A i \in NormalizedMatches(log[n]) :
                /\ log[n].Ret.err = Nil
                /\ log[n].Ret.id = log[n].Out.HostedZones[i].Id

Prev == history[Len(history)]

\* EnsureCreated returned, right after an EnsureCreated of the same object
\* that returned no error.
C10_Case ==
    /\ Created
    /\ Len(history) >= 1
    /\ Prev.op = "EnsureCreated"
    /\ Prev.obj = obj
    /\ Prev.result = Nil

\* No call of the running handler met a transport failure.
NoFault == result # "clientError" /\ \A i \in DOMAIN log : ~log[i].Fault

C11_Case ==
    /\ Deleted
    /\ Len(history) >= 1
    /\ Prev.op = "EnsureDeleted"
    /\ Prev.obj = obj
    /\ Prev.result = Nil
    /\ Len(Prev.mutations) = 1
    /\ Prev.mutations[1].Ret = Nil

\* C11, as claimed: after an EnsureDeleted has deleted the delegation, a
\* later EnsureDeleted of the same object, the cloud untouched in between,
\* finds no delegation in the intermediate zone, issues no delete request and
\* returns no error.
C11_DeleteIsIdempotent ==
    (C11_Case /\ NoFault) =>
        /\ Mutations(log) = <<>>
        /\ result = Nil
        /\ \A k \in DOMAIN log : IsRead(log[k]) => IsNotFound(log[k].Ret.err)

\* The lookups of the log that the client c answered with a zone.
Found(c) == {i \in DOMAIN log : IsLookup(log[i]) /\ log[i].Client = c /\ log[i].Ret.err = Nil}

\* C15: EnsureCreated waits for both of its lookups.  In every interleaving,
\* no name server read and no record mutation is issued while a lookup has
\* not returned, the zone a read or a mutation names is the one the lookup
\* of that zone returned, and when EnsureCreated returns no lookup is
\* waiting or in flight.
C15_WaitsForBothLookups ==
    op = "EnsureCreated" =>
        /\ \A k \in DOMAIN log :
               IsRead(log[k]) =>
                   /\ \A g \in Goroutines : gpc[g] = "done"
                   /\ \E i \in Found("guest") : i < k /\ log[k].In.HostedZoneId = log[i].Ret.id
                   /\ \E i \in Found("defaultGuest") : i < k
        /\ \A k \in DOMAIN log :
               IsChange(log[k]) =>
                   /\ \A g \in Goroutines : gpc[g] = "done"
                   /\ \E i \in Found("defaultGuest") :
                          i < k /\ log[k].In.HostedZoneId = log[i].Ret.id
        /\ pc \in {"nameServers", "upsert"} =>
               /\ \A g \in Goroutines : gpc[g] = "done"
               /\ \E i \in Found("guest") : finalZoneID = log[i].Ret.id
               /\ \E i \in Found("defaultGuest") : intermediateZoneID = log[i].Ret.id
        /\ pc = "done" => \A g \in Goroutines : gpc[g] \in {"none", "done"}

\* The lookup of the final zone returned before that of the intermediate
\* zone, and EnsureCreated upserted the delegation.
C15_Witness ==
    /\ Created
    /\ result = Nil
    /\ Len(log) = 4
    /\ IsLookup(log[1]) /\ log[1].Client = "guest"
    /\ IsLookup(log[2]) /\ log[2].Client = "defaultGuest"
    /\ IsRead(log[3])
    /\ IsChange(log[4])

\* C14, as claimed: once one of the two zone lookups of EnsureCreated has
\* failed, the other one, if it is still in flight, is cancelled: its request
\* is aborted instead of running to its end, and nothing it found is kept.
C14_SharedCancellation ==
    [][\A g \in Goroutines :
           (/\ op = "EnsureCreated"
            /\ gerr # Nil
            /\ gpc[g] = "inflight"
            /\ gpc'[g] = "done")
           => /\ IsCanceled(log'[Len(log')].Out.err)
              /\ intermediateZoneID' = intermediateZoneID
              /\ finalZoneID' = finalZoneID]_vars

\* C17: EnsureDeleted looks up the intermediate zone and no other.  If the
\* lookup returns not-found, it returns no error, having read no name
\* servers and issued no record mutation; if the lookup fails otherwise, it
\* returns that error and issues no record mutation.
C17_OnlyTheIntermediateZone ==
    op = "EnsureDeleted" =>
        \A i \in DOMAIN log :
            IsLookup(log[i]) =>
                /\ i = 1
                /\ log[i].Client = "defaultGuest"
                /\ log[i].In.DNSName = IntermediateZone(obj)
                /\ log[i].In.DNSName # FinalZone(obj)
                /\ IsNotFound(log[i].Ret.err) =>
                       /\ pc = "done"
                       /\ result = Nil
                       /\ Len(log) = 1
                       /\ recordSets = startRecordSets
                /\ (log[i].Ret.err # Nil /\ ~IsNotFound(log[i].Ret.err)) =>
                       /\ pc = "done"
                       /\ result = log[i].Ret.err
                       /\ Mutations(log) = <<>>
                       /\ recordSets = startRecordSets

\* The account lists a zone, none of the name asked for, the zone Z1 holds
\* a delegation of the cluster, and EnsureDeleted returned.
C17_Witness ==
    /\ Deleted
    /\ result = Nil
    /\ Len(log) = 1
    /\ IsNotFound(log[1].Ret.err)
    /\ Len(log[1].Out.HostedZones) >= 1
    /\ DelegationsOf(recordSets["Z1"], obj) # {}

\* C18, as claimed: when EnsureCreated found both zones and the read of the
\* final zone's name servers reports not-found, it returns an error that is
\* classified as an execution error and not as not-found, and it issues no
\* upsert.
C18_MissingNameServersIsExecutionError ==
    (/\ Created
     /\ \E k \in DOMAIN log : IsRead(log[k]) /\ IsNotFound(log[k].Ret.err))
    => /\ IsExecutionError(result)
       /\ ~IsNotFound(result)
       /\ Mutations(log) = <<>>

(***************************************************************************)
(* Properties of the cpi resource, checked under SpecCPI.                  *)
(***************************************************************************)
IsDisable(c) == c.Api = "UpdateTerminationProtection"

IsDeleteStack(c) == c.Api = "DeleteStack"

\* C6: if UpdateTerminationProtection answers that the stack does not exist
\* or is being deleted, EnsureDeleted returns no error and issues no
\* DeleteStack.
C6_AbsentOrDeletingCancels ==
    \A i \in DOMAIN clog :
        (/\ IsDisable(clog[i])
         /\ IsNotExists(clog[i].err) \/ IsDeleteInProgress(clog[i].err))
        => /\ cpc = "done"
           /\ cresult = Nil
           /\ \A j \in DOMAIN clog : ~IsDeleteStack(clog[j])

\* The stack was absent and EnsureDeleted returned.
C6_Witness ==
    /\ cpc = "done"
    /\ Len(clog) = 1
    /\ IsDisable(clog[1])
    /\ IsNotExists(clog[1].err)
    /\ stacks[clog[1].In.StackName] = "absent"

\* C7: a DeleteStack is issued only after an UpdateTerminationProtection of
\* the same stack name, disabling the protection, returned without error in
\* the same call; and a call in which that happened has issued the
\* DeleteStack when it returns.
C7_DisableThenDelete ==
    /\ \A j \in DOMAIN clog :
           IsDeleteStack(clog[j]) =>
               \E i \in 1..(j - 1) :
                   /\ IsDisable(clog[i])
                   /\ clog[i].err = Nil
                   /\ clog[i].In.EnableTerminationProtection = FALSE
                   /\ clog[i].In.StackName = clog[j].In.StackName
    /\ \A i \in DOMAIN clog :
           (cpc = "done" /\ IsDisable(clog[i]) /\ clog[i].err = Nil) =>
               \E j \in (i + 1)..Len(clog) :
                   /\ IsDeleteStack(clog[j])
                   /\ clog[j].In.StackName = clog[i].In.StackName

\* The protection was disabled, the deletion was requested and has begun.
C7_Witness ==
    /\ cpc = "done"
    /\ cresult = Nil
    /\ Len(clog) = 2
    /\ IsDisable(clog[1])
    /\ IsDeleteStack(clog[2])
    /\ stacks[clog[2].In.StackName] = "deleting"

\* C8: if UpdateTerminationProtection fails with an error that is neither
\* delete-in-progress nor not-exists, EnsureDeleted returns that error and
\* issues no DeleteStack.
C8_OtherErrorFails ==
    \A i \in DOMAIN clog :
        (/\ IsDisable(clog[i])
         /\ clog[i].err # Nil
         /\ ~IsNotExists(clog[i].err)
         /\ ~IsDeleteInProgress(clog[i].err))
        => /\ cpc = "done"
           /\ cresult = clog[i].err
           /\ \A j \in DOMAIN clog : ~IsDeleteStack(clog[j])

\* UpdateTerminationProtection failed on a stack that is there.
C8_Witness ==
    /\ cpc = "done"
    /\ cresult = "awsError"
    /\ Len(clog) = 1
    /\ IsDisable(clog[1])
    /\ stacks[clog[1].In.StackName] = "protected"

\* C9, as claimed: a DeleteStack that reports the stack as being deleted or
\* as not existing, as it may when the stack is touched between the two
\* requests, is not an error: EnsureDeleted returns no error.
C9_DeleteOfDeletingIsNoError ==
    \A j \in DOMAIN clog :
        (/\ cpc = "done"
         /\ IsDeleteStack(clog[j])
         /\ IsDeleteInProgress(clog[j].err) \/ IsNotExists(clog[j].err))
        => cresult = Nil

(***************************************************************************)
(* Properties of the ebsvolume resource, checked under SpecEBS.            *)
(***************************************************************************)
\* newCreateChange has returned for currentState and desiredState.
Diffed == epc = "apply"

\* C12, as claimed: newCreateChange returns the no-op change if and only if
\* the current and the desired state are equal; it returns a change whenever
\* they differ.
C12_Original == Diffed => (createChange = NilChange <=> currentState = desiredState)

\* C12, amended: the newCreateChange of the ebsvolume resource returns the
\* no-op change and no error for every current and desired state, when they
\* are equal and when they differ.
C12_CreateIsAlwaysNoOp == Diffed => createChange = NilChange /\ eresult = Nil

\* The no-op change was returned although a desired volume is not there.
C12_Witness ==
    /\ Diffed
    /\ desiredState \ currentState # {}
    /\ createChange = NilChange

(***************************************************************************)
(* Properties of the resources that do nothing, checked under SpecNoOp.    *)
(***************************************************************************)
\* C13: with route53 disabled, EnsureCreated and EnsureDeleted of a cluster
\* object have returned no error as soon as they are entered, whether or not
\* the clients could be resolved, having issued no zone lookup, no name
\* server read and no record mutation; and the ApplyCreateChange of the
\* ebsvolume resource returns no error for every change and issues no cloud
\* call.
C13_DisabledIsNoOp ==
    /\ (~route53Enabled /\ op # "none" /\ ToCustomObject(obj).err = Nil) =>
           /\ pc = "done"
           /\ result = Nil
           /\ log = <<>>
           /\ recordSets = startRecordSets
    /\ epc = "applied" => eresult = Nil /\ ecalls = <<>>

\* Both zones and a delegation are there, EnsureDeleted of the cluster
\* returned with route53 disabled, and ApplyCreateChange was given a change
\* that is not the no-op.
C13_Witness ==
    /\ ~route53Enabled
    /\ Deleted
    /\ obj = Cluster("c1")
    /\ Len(history) = 1
    /\ Prev.op = "EnsureCreated"
    /\ Prev.obj = Cluster("c1")
    /\ DelegationsOf(recordSets["Z1"], obj) # {}
    /\ epc = "applied"
    /\ createChange = VolumeChange({"vol-1"})

(***************************************************************************)
(* Properties of both resources under a context that may be cancelled,     *)
(* checked under SpecCtx.                                                  *)
(***************************************************************************)
\* C16, as claimed: every request of the bridgezone resource (zone lookup,
\* name server read, record mutation) and of the cpi resource (disabling the
\* termination protection, deleting the stack) is bound to the context: a
\* request that is outstanding when the context is done is aborted, and the
\* handler returns the cancellation error instead of going on.
C16_CallsBoundToContext ==
    [][ctxDone =>
           /\ Len(log') > Len(log) =>
                  /\ IsCanceled(log'[Len(log')].Out.err)
                  /\ pc' = "done" => IsCanceled(result')
           /\ Len(clog') > Len(clog) =>
                  /\ IsCanceled(clog'[Len(clog')].err)
                  /\ cpc' = "done" /\ IsCanceled(cresult')]_vars

(***************************************************************************)
(* Properties of the executor, checked under SpecExec.                     *)
(***************************************************************************)
\* The position in the list of the resource of the i-th event of a pass.
Position(i) ==
    IF xmode = "create" THEN (i + 1) \div 2
    ELSE Len(Resources) + 1 - (i + 1) \div 2

\* C19: a create pass invokes ensureCreated of the resources in list order,
\* a delete pass ensureDeleted in the reverse order, and one at a time: a
\* resource is invoked only after the one before it has returned, and a
\* handler runs only between its invocation and its return.
C19_InOrderOneAtATime ==
    /\ Len(xtrace) <= 2 * Len(Resources)
    /\ \A i \in DOMAIN xtrace :
           /\ xtrace[i].event = IF i % 2 = 1 THEN "invoked" ELSE "returned"
           /\ xtrace[i].op = IF xmode = "create" THEN "ensureCreated" ELSE "ensureDeleted"
           /\ xtrace[i].resource = Resources[Position(i)]
    /\ pc \notin {"idle", "done"} =>
           /\ xtrace[Len(xtrace)].event = "invoked"
           /\ xtrace[Len(xtrace)].resource = "bridgezone"
    /\ cpc \notin {"idle", "done"} =>
           /\ xtrace[Len(xtrace)].event = "invoked"
           /\ xtrace[Len(xtrace)].resource = "cpi"

\* A delete pass went from C over the cpi and the bridgezone resource, which
\* deleted the delegation, to A.
C19_Witness ==
    /\ xpc = "done"
    /\ xmode = "delete"
    /\ Len(xtrace) = 2 * Len(Resources)
    /\ xtrace[1].resource = "C"
    /\ xtrace[3].resource = "cpi"
    /\ xtrace[5].resource = "bridgezone"
    /\ xtrace[7].resource = "A"
    /\ Len(history) = 1
    /\ Len(history[1].mutations) = 1

\* C20, as claimed: when a resource returns an error classified as
\* cancel-pass, no resource after it is invoked and the pass ends with
\* success; and so it is when the bridgezone or the cpi resource decides to
\* cancel (a zone is not found, the stack is absent or being deleted): the
\* pass ends there.
C20_CancelDecisionsEndThePass ==
    \A i \in DOMAIN xtrace :
        (/\ xtrace[i].event = "returned"
         /\ IsCancelPass(xtrace[i].err) \/ xtrace[i].canceling)
        => /\ Len(xtrace) = i
           /\ xpc = "done"
           /\ xresult = Nil

(***************************************************************************)
(* Properties of the context status, checked under SpecStatus.             *)
(***************************************************************************)
\* C21: the handlers of the bridgezone and of the cpi resource only read the
\* context of the pass: no step of EnsureCreated or EnsureDeleted, whether
\* the call succeeds, cancels or fails, changes a field of the context
\* status.
C21_StatusUnchanged ==
    [][\A f \in StatusFields : status'[f] = status[f]]_vars

\* Under a filled status the bridgezone resource deleted the delegation,
\* after a call that failed, and the cpi resource cancelled on a stack that
\* is being deleted.
C21_Witness ==
    /\ status = FilledStatus
    /\ Deleted
    /\ result = Nil
    /\ Len(Mutations(log)) = 1
    /\ Len(history) = 1
    /\ Prev.result # Nil
    /\ cpc = "done"
    /\ cresult = Nil
    /\ Len(clog) = 1
    /\ IsDeleteInProgress(clog[1].err)

(***************************************************************************)
(* Properties of New, checked under SpecNew.                               *)
(***************************************************************************)
\* A config New has to refuse.
Incomplete(c) ==
    \/ \A f \in DOMAIN c.HostAWSConfig : c.HostAWSConfig[f] = ""
    \/ ~c.HostRoute53
    \/ ~c.K8sClient
    \/ ~c.Logger

\* C22: New returns an error classified InvalidConfig and no Resource
\* whenever HostAWSConfig is empty or HostRoute53, K8sClient or Logger is
\* nil, and a Resource with no error otherwise; no call of EnsureCreated or
\* EnsureDeleted returns an error classified InvalidConfig.
C22_InvalidConfigOnlyAtConstruction ==
    /\ npc = "returned" =>
           IF Incomplete(config)
           THEN IsInvalidConfig(newResult.err) /\ newResult.resource.nil
           ELSE newResult.err = Nil /\ ~newResult.resource.nil
    /\ pc = "done" => ~IsInvalidConfig(result)
    /\ \A i \in DOMAIN history : ~IsInvalidConfig(history[i].result)

\* New accepted a config whose host AWS config has only its region set, and
\* a handler of the Resource it returned failed.
C22_Witness ==
    /\ npc = "returned"
    /\ config.HostAWSConfig = [AccessKeyID |-> "", Region |-> "eu-central-1"]
    /\ ~newResult.resource.nil
    /\ newResult.err = Nil
    /\ pc = "done"
    /\ result # Nil

(***************************************************************************)
(* Properties of the log, checked under SpecEvents.                        *)
(***************************************************************************)
\* The log events that tell of a decision to cancel.
CancelDecisions(evs) ==
    SelectSeq(evs, LAMBDA e :
        e \in {"canceling resource",
               "canceling resource reconciliation for custom object"})

\* C23: a handler of the bridgezone or of the cpi resource that returns no
\* error without having issued its mutation (route53 disabled, zone not
\* found, delegation not found, stack absent, stack being deleted) has logged
\* one "canceling resource" event by the time it returns; a handler that
\* issued its mutation, or that returns an error, has logged none.
C23_CancelDecisionsAreLogged ==
    /\ pc = "done" =>
           Len(CancelDecisions(events)) =
               IF result = Nil /\ Mutations(log) = <<>> THEN 1 ELSE 0
    /\ cpc = "done" =>
           Len(CancelDecisions(cevents)) =
               IF cresult = Nil /\ \A i \in DOMAIN clog : clog[i].Api # "DeleteStack"
               THEN 1 ELSE 0

\* EnsureDeleted of the bridgezone resource found the intermediate zone but
\* no delegation in it and cancelled, and EnsureDeleted of the cpi resource
\* cancelled on a stack that does not exist; each logged its decision.
C23_Witness ==
    /\ route53Enabled
    /\ Deleted
    /\ result = Nil
    /\ Len(log) = 2
    /\ IsRead(log[2])
    /\ IsNotFound(log[2].Ret.err)
    /\ Len(CancelDecisions(events)) = 1
    /\ cpc = "done"
    /\ cresult = Nil
    /\ Len(clog) = 1
    /\ IsNotExists(clog[1].err)
    /\ Len(CancelDecisions(cevents)) = 1

(***************************************************************************)
(* Properties of the auto scaling group adapter, checked under SpecASG.    *)
(***************************************************************************)
\* The value of a digit, and 10 for what is no digit.
DigitValue(d) ==
    IF \E v \in 0..9 : DecimalDigits[v + 1] = d
    THEN CHOOSE v \in 0..9 : DecimalDigits[v + 1] = d
    ELSE 10

\* The integer a string of digits is the decimal notation of.
RECURSIVE Atoi(_)
Atoi(str) ==
    IF str = <<>> THEN 0
    ELSE 10 * Atoi(SubSeq(str, 1, Len(str) - 1)) + DigitValue(str[Len(str)])

\* str is the decimal notation of an integer of at least 1: digits only, the
\* first of them not a zero.
DecimalOfPositive(str) ==
    /\ str # <<>>
    /\ \A i \in DOMAIN str : DigitValue(str[i]) < 10
    /\ str[1] # "0"
    /\ Atoi(str) >= 1

\* C24: for every number of workers from 0 on, workerCountRatio(workers,
\* asgMaxBatchSizeRatio) is the decimal string of an integer of at least 1:
\* "1" for 0, 1, 2 and 3 workers and "2" for 7 workers; Adapt sets
\* MaxBatchSize the same way, and MinInstancesInService to "2" for 3 workers
\* and to "5" for 7.
C24_BatchSizeNeverZero ==
    /\ ratioResult # <<>> =>
           /\ DecimalOfPositive(ratioResult)
           /\ workers \in {0, 1, 2, 3} => ratioResult = <<"1">>
           /\ workers = 7 => ratioResult = <<"2">>
    /\ (asg.adapted /\ asg.err = Nil) =>
           /\ DecimalOfPositive(asg.MaxBatchSize)
           /\ DecimalOfPositive(asg.MinInstancesInService)
           /\ workers = 3 =>
                  asg.MaxBatchSize = <<"1">> /\ asg.MinInstancesInService = <<"2">>
           /\ workers = 7 =>
                  asg.MaxBatchSize = <<"2">> /\ asg.MinInstancesInService = <<"5">>

\* workerCountRatio was called for no worker at all and returned "1".
C24_Witness ==
    /\ workers = 0
    /\ ratioResult = <<"1">>
    /\ asg.adapted
    /\ asg.err # Nil

(***************************************************************************)
(* Properties of getNameServersAndTTL, checked under SpecRead.             *)
(***************************************************************************)
\* A name without its last character when that is a dot.
WithoutOneDot(n) ==
    IF n # <<>> /\ n[Len(n)] = "." THEN SubSeq(n, 1, Len(n) - 1) ELSE n

\* C25: getNameServersAndTTL returns the error of a failed read as it is,
\* never as NotFound; a NotFound error for an empty listing; an
\* ExecutionError for a listing of more than one record set; a NotFound
\* error for one record set whose name, one trailing dot removed, is not the
\* name asked for; and otherwise the values of that record set, in their
\* order, its TTL and no error.
C25_ReadClassification ==
    answer.done =>
        LET sets == listing.ResourceRecordSets
        IN  IF listing.err # Nil
            THEN answer.err = listing.err /\ ~IsNotFound(answer.err)
            ELSE IF Len(sets) = 0 THEN IsNotFound(answer.err)
            ELSE IF Len(sets) > 1 THEN IsExecutionError(answer.err)
            ELSE IF WithoutOneDot(sets[1].Name) # queried THEN IsNotFound(answer.err)
            ELSE /\ answer.err = Nil
                 /\ answer.nameServers = sets[1].ResourceRecords
                 /\ answer.ttl = sets[1].TTL

\* The one record set listed has the name asked for followed by two dots:
\* with one dot removed it is still another name, and the result is NotFound.
C25_Witness ==
    /\ answer.done
    /\ listing.err = Nil
    /\ Len(listing.ResourceRecordSets) = 1
    /\ listing.ResourceRecordSets[1].Name = queried \o <<".", ".">>
    /\ IsNotFound(answer.err)

(***************************************************************************)
(* The confinement of the record mutations, checked under Spec.            *)
(***************************************************************************)
\* C26: in every call of EnsureCreated and EnsureDeleted at most one record
\* mutation is requested; it is sent through defaultGuest to the hosted zone
\* whose ID the lookup of the intermediate zone returned, and it concerns the
\* NS record named <clusterID>.k8s.<baseDomain>; nothing is changed through
\* guest, and the record sets of the zone found for the final zone stay as
\* they were.
C26_MutationsConfined ==
    /\ Len(Mutations(log)) <= 1
    /\ \A i \in DOMAIN log :
           /\ log[i].Client = "guest" => ~IsChange(log[i])
           /\ (IsLookup(log[i]) /\ log[i].Client = "guest" /\ log[i].Ret.err = Nil) =>
                  recordSets[log[i].Ret.id] = startRecordSets[log[i].Ret.id]
           /\ IsChange(log[i]) =>
                  /\ log[i].Client = "defaultGuest"
                  /\ \E j \in 1..(i - 1) :
                         /\ IsLookup(log[j])
                         /\ log[j].Client = "defaultGuest"
                         /\ log[j].In.DNSName = IntermediateZone(obj)
                         /\ log[j].Ret.err = Nil
                         /\ log[j].Ret.id = log[i].In.HostedZoneId
                  /\ \A j \in DOMAIN log :
                         (IsLookup(log[j]) /\ log[j].Client = "guest") =>
                             log[j].Ret.id # log[i].In.HostedZoneId
                  /\ log[i].In.Change.ResourceRecordSet.Name = FinalZone(obj)
                  /\ log[i].In.Change.ResourceRecordSet.Type = "NS"

\* EnsureDeleted deleted the delegation that the EnsureCreated before it had
\* upserted, each with its one mutation.
C26_Witness ==
    /\ Deleted
    /\ result = Nil
    /\ Len(Mutations(log)) = 1
    /\ Mutations(log)[1].In.Change.Action = "DELETE"
    /\ Len(history) = 1
    /\ Prev.op = "EnsureCreated"
    /\ Prev.result = Nil
    /\ Len(Prev.mutations) = 1

\* C27, as claimed: the values and the TTL getNameServersAndTTL returns come
\* from a record set of type NS; when the first record set of the listing
\* has the name asked for and another type, the read reports not-found and
\* EnsureDeleted requests no deletion.
C27_OnlyFromNSRecordSets ==
    \A k \in DOMAIN log :
        (/\ IsRead(log[k])
         /\ log[k].Out.err = Nil
         /\ Len(log[k].Out.ResourceRecordSets) = 1
         /\ TrimSuffix(log[k].Out.ResourceRecordSets[1].Name, Dot) = log[k].In.StartRecordName
         /\ log[k].Out.ResourceRecordSets[1].Type # "NS")
        => /\ IsNotFound(log[k].Ret.err)
           /\ op = "EnsureDeleted" => Mutations(log) = <<>>

(***************************************************************************)
(* Properties of the status conditions, checked under SpecConditions.      *)
(***************************************************************************)
OfType(conds, types) == SelectSeq(conds, LAMBDA c : c.Type \in types)

LastWith == lastWith[Len(lastWith)]

\* The type a With...Condition call removes, by the type it sets.
Opposite(type) ==
    CASE type = StatusClusterTypeCreated -> StatusClusterTypeCreating
      [] type = StatusClusterTypeCreating -> StatusClusterTypeCreated
      [] type = StatusClusterTypeUpdated -> StatusClusterTypeUpdating
      [] type = StatusClusterTypeUpdating -> StatusClusterTypeUpdated

\* C28: starting from no condition, after any sequence of With...Condition
\* calls the list never holds a Created together with a Creating condition,
\* nor an Updated together with an Updating one; right after a call the
\* condition it sets is there with status True and the opposite one is not,
\* and the conditions of the other pair are the ones of before, in their
\* order.
C28_OppositeConditionsExclude ==
    /\ \A t \in StatusClusterTypes :
           OfType(conditions, {t}) = <<>> \/ OfType(conditions, {Opposite(t)}) = <<>>
    /\ lastWith # <<>> =>
           /\ hasCondition(conditions, StatusClusterStatusTrue, LastWith)
           /\ ~hasCondition(conditions, StatusClusterStatusTrue, Opposite(LastWith))
           /\ OfType(conditions, StatusClusterTypes \ {LastWith, Opposite(LastWith)}) =
                  OfType(previous, StatusClusterTypes \ {LastWith, Opposite(LastWith)})
    /\ (lastWith # <<>> /\ LastWith = StatusClusterTypeCreated) =>
           HasCreatedCondition(conditions) /\ ~HasCreatingCondition(conditions)
    /\ (lastWith # <<>> /\ LastWith = StatusClusterTypeCreating) =>
           HasCreatingCondition(conditions) /\ ~HasCreatedCondition(conditions)
    /\ (lastWith # <<>> /\ LastWith = StatusClusterTypeUpdated) =>
           HasUpdatedCondition(conditions) /\ ~HasUpdatingCondition(conditions)
    /\ (lastWith # <<>> /\ LastWith = StatusClusterTypeUpdating) =>
           HasUpdatingCondition(conditions) /\ ~HasUpdatedCondition(conditions)

\* WithCreatedCondition replaced the Creating condition of a list that also
\* held an Updating condition, which it kept.
C28_Witness ==
    /\ lastWith # <<>>
    /\ LastWith = StatusClusterTypeCreated
    /\ HasCreatingCondition(previous)
    /\ HasUpdatingCondition(previous)
    /\ HasCreatedCondition(conditions)
    /\ ~HasCreatingCondition(conditions)
    /\ HasUpdatingCondition(conditions)

\* C29, as claimed: a With...Condition call on the result of the same call
\* returns the list it was given, and after any sequence of calls the list
\* holds at most one condition of each type.
C29_WithIsIdempotent ==
    /\ (Len(lastWith) >= 2 /\ lastWith[Len(lastWith) - 1] = LastWith) =>
           conditions = previous
    /\ \A t \in StatusClusterTypes : Len(OfType(conditions, {t})) <= 1

====
